---- MODULE Spec2Model ----
(***************************************************************************)
(* Model of convex-better-auth-astro (src/src/index.ts): locating the      *)
(* session token in a cookie source, building Convex HTTP clients that     *)
(* carry it, fetching the session and the options/environment fallback.    *)
(* The example application (src/example) is modelled as far as its        *)
(* updateUsername action, its middleware and its sign-in form go.          *)
(*                                                                         *)
(* Text is a sequence of one-character strings.  Every JavaScript value is *)
(* a record with a `typeof` field, so that undefined, null, strings and    *)
(* objects can be compared with each other.                                *)
(***************************************************************************)
EXTENDS Integers, Sequences, FiniteSets, TLC

VARIABLES
  authOptions,       \* options of the better-auth instance createAuth returns
  env,               \* process.env
  cookieJar,         \* the cookies the user agent sent with the inbound request
  store,             \* the Astro cookie store of the request context
  convexInstances,   \* every ConvexHttpClient constructed so far
  betterFetchCalls,  \* every betterFetch call issued so far
  fetchCalls,        \* every call of the global fetch issued so far
  warnings,          \* what console.warn has received
  clients,           \* the objects setupFetchClient has returned
  last,              \* the most recent call and its outcome
  calls,             \* number of calls made
  form               \* the state of the example's sign-in / sign-up form

vars == <<authOptions, env, cookieJar, store, convexInstances, betterFetchCalls,
          fetchCalls, warnings, clients, last, calls, form>>

(***************************************************************************)
(* Bounds                                                                  *)
(***************************************************************************)
MaxPairs == 2
MaxCalls == 3
MaxClients == 2
MaxSubmits == 2

(***************************************************************************)
(* JavaScript values                                                       *)
(***************************************************************************)
Undefined == [typeof |-> "undefined"]

Null == [typeof |-> "null"]

Str(t) == [typeof |-> "string", text |-> t]

Truthy(v) ==
  CASE v.typeof = "undefined" -> FALSE
    [] v.typeof = "null" -> FALSE
    [] v.typeof = "string" -> Len(v.text) > 0
    [] OTHER -> TRUE

\* a ?? b
Nullish(a, b) == IF a.typeof \in {"undefined", "null"} THEN b ELSE a

(***************************************************************************)
(* Text helpers (String.prototype methods used by the source)              *)
(***************************************************************************)
Whitespace == {" "}

Drop(s, n) == IF n >= Len(s) THEN <<>> ELSE SubSeq(s, n + 1, Len(s))

Take(s, n) == IF n <= 0 THEN <<>> ELSE SubSeq(s, 1, IF n > Len(s) THEN Len(s) ELSE n)

startsWith(s, p) == Len(p) <= Len(s) /\ SubSeq(s, 1, Len(p)) = p

\* 1-based position of the first occurrence of the text p in s, 0 when absent
IndexOfText(s, p) ==
  LET hits == {i \in 1..(Len(s) - Len(p) + 1) : SubSeq(s, i, i + Len(p) - 1) = p}
  IN IF hits = {} THEN 0 ELSE CHOOSE i \in hits : \A j \in hits : i <= j

\* String.prototype.replace with a string pattern: the first occurrence only
replace(s, p, r) ==
  LET i == IndexOfText(s, p)
  IN IF i = 0 THEN s ELSE Take(s, i - 1) \o r \o Drop(s, i + Len(p) - 1)

RECURSIVE TrimStart(_)
TrimStart(s) == IF s # <<>> /\ Head(s) \in Whitespace THEN TrimStart(Tail(s)) ELSE s

RECURSIVE TrimEnd(_)
TrimEnd(s) ==
  IF s # <<>> /\ s[Len(s)] \in Whitespace THEN TrimEnd(Take(s, Len(s) - 1)) ELSE s

trim(s) == TrimEnd(TrimStart(s))

\* cookieHeader.split(/;\s*/)
RECURSIVE SplitCookie(_)
SplitCookie(s) ==
  LET i == IndexOfText(s, <<";">>)
  IN IF i = 0 THEN <<s>>
     ELSE <<Take(s, i - 1)>> \o SplitCookie(TrimStart(Drop(s, i)))

\* The percent escapes of the modelled alphabet; any other text after "%" is
\* malformed and makes decodeURIComponent throw URIError.
Escapes ==
  [e \in {<<"2", "0">>, <<"3", "D">>, <<"3", "B">>, <<"2", "5">>, <<"7", "7">>} |->
     CASE e = <<"2", "0">> -> " "
       [] e = <<"3", "D">> -> "="
       [] e = <<"3", "B">> -> ";"
       [] e = <<"2", "5">> -> "%"
       [] e = <<"7", "7">> -> "w"]

RECURSIVE decodeURIComponent(_)
decodeURIComponent(s) ==
  IF s = <<>> THEN [ok |-> TRUE, text |-> <<>>]
  ELSE IF Head(s) = "%"
       THEN IF Len(s) >= 3 /\ SubSeq(s, 2, 3) \in DOMAIN Escapes
            THEN LET rest == decodeURIComponent(Drop(s, 3))
                 IN IF rest.ok
                    THEN [ok |-> TRUE, text |-> <<Escapes[SubSeq(s, 2, 3)]>> \o rest.text]
                    ELSE rest
            ELSE [ok |-> FALSE, text |-> <<>>]
       ELSE LET rest == decodeURIComponent(Tail(s))
            IN IF rest.ok THEN [ok |-> TRUE, text |-> <<Head(s)>> \o rest.text] ELSE rest

\* mutant: text that cannot be decoded is dropped
safeDecodeEmpty(value) ==
  LET d == decodeURIComponent(value)
  IN IF d.ok THEN d.text ELSE <<>>

safeDecode(value) ==
  LET d == decodeURIComponent(value)
  IN IF d.ok THEN d.text ELSE value

(***************************************************************************)
(* Cookie sources                                                          *)
(***************************************************************************)
\* new Headers(...): `cookie` is the cookie header as Str(text), or Null
Headers(cookie) == [typeof |-> "object", class |-> "Headers", cookie |-> cookie]

Request(cookie) == [typeof |-> "object", class |-> "Request", headers |-> Headers(cookie)]

\* an Astro cookie store: jar maps the names it holds to their values
AstroCookies(jar) == [typeof |-> "object", class |-> "AstroCookies", jar |-> jar]

Wrapper(cookies, request) ==
  [typeof |-> "object", class |-> "Object", cookies |-> cookies, request |-> request]

\* "get" in value && typeof value.get === "function"
HasGetFunction(value) == value.class \in {"Headers", "AstroCookies"}

CookieHeaderName == <<"c", "o", "o", "k", "i", "e">>

\* value.get(name) for an object that has a get function
CallGet(value, name) ==
  IF value.class = "Headers"
  THEN (IF name = CookieHeaderName THEN value.cookie ELSE Null)
  ELSE IF name \in DOMAIN value.jar
       THEN [typeof |-> "object", class |-> "AstroCookie", value |-> Str(value.jar[name])]
       ELSE Undefined

isAstroCookies(value) ==
  Truthy(value) /\ value.typeof = "object" /\ HasGetFunction(value)

RECURSIVE ScanPairs(_, _)
ScanPairs(pairs, name) ==
  IF pairs = <<>> THEN Undefined
  ELSE LET pair == Head(pairs)
           separatorIndex == IndexOfText(pair, <<"=">>)
       IN IF pair = <<>> THEN ScanPairs(Tail(pairs), name)
          ELSE IF separatorIndex = 0 THEN ScanPairs(Tail(pairs), name)
          ELSE IF safeDecode(trim(Take(pair, separatorIndex - 1))) # name
               THEN ScanPairs(Tail(pairs), name)
          ELSE Str(safeDecode(Drop(pair, separatorIndex)))

\* mutant: only the first pair of the header is examined
readCookieFromHeaderFirstPair(cookieHeader, name) ==
  IF ~Truthy(cookieHeader) THEN Undefined
  ELSE ScanPairs(<<Head(SplitCookie(cookieHeader.text))>>, name)

\* mutant: a missing cookie reads as the empty string
readCookieFromHeaderEmpty(cookieHeader, name) ==
  IF ~Truthy(cookieHeader) THEN Str(<<>>)
  ELSE Nullish(ScanPairs(SplitCookie(cookieHeader.text), name), Str(<<>>))

\* mutant: the pairs are scanned from the right, so that the last pair of the
\* name is the one read
readCookieFromHeaderLastWins(cookieHeader, name) ==
  IF ~Truthy(cookieHeader) THEN Undefined
  ELSE LET pairs == SplitCookie(cookieHeader.text)
       IN ScanPairs([i \in 1..Len(pairs) |-> pairs[Len(pairs) + 1 - i]], name)

readCookieFromHeader(cookieHeader, name) ==
  IF ~Truthy(cookieHeader) THEN Undefined
  ELSE ScanPairs(SplitCookie(cookieHeader.text), name)

\* mutant: the duck-typed cookie store test comes before the Headers test
RECURSIVE readCookieGetFirst(_, _)
readCookieGetFirst(source, name) ==
  IF ~Truthy(source) THEN Undefined
  ELSE IF source.typeof = "string" THEN readCookieFromHeader(source, name)
  ELSE IF isAstroCookies(source)
       THEN LET cookie == CallGet(source, name)
            IN IF cookie.typeof = "object" /\ "value" \in DOMAIN cookie
                  /\ cookie.value.typeof = "string"
               THEN cookie.value
               ELSE Undefined
  ELSE IF source.class = "Headers"
       THEN readCookieFromHeader(CallGet(source, CookieHeaderName), name)
  ELSE IF source.class = "Request" THEN readCookieGetFirst(source.headers, name)
  ELSE LET fromStore ==
             IF "cookies" \in DOMAIN source /\ Truthy(source.cookies)
             THEN readCookieGetFirst(source.cookies, name)
             ELSE Undefined
       IN IF Truthy(fromStore) THEN fromStore
          ELSE IF "request" \in DOMAIN source /\ Truthy(source.request)
               THEN readCookieGetFirst(source.request, name)
               ELSE Undefined

\* mutant: a wrapper's request is consulted before its cookie store
RECURSIVE readCookieRequestFirst(_, _)
readCookieRequestFirst(source, name) ==
  IF ~Truthy(source) THEN Undefined
  ELSE IF source.typeof = "string" THEN readCookieFromHeader(source, name)
  ELSE IF source.class = "Headers"
       THEN readCookieFromHeader(CallGet(source, CookieHeaderName), name)
  ELSE IF source.class = "Request" THEN readCookieRequestFirst(source.headers, name)
  ELSE IF isAstroCookies(source)
       THEN LET cookie == CallGet(source, name)
            IN IF cookie.typeof = "object" /\ "value" \in DOMAIN cookie
                  /\ cookie.value.typeof = "string"
               THEN cookie.value
               ELSE Undefined
  ELSE LET fromRequest ==
             IF "request" \in DOMAIN source /\ Truthy(source.request)
             THEN readCookieRequestFirst(source.request, name)
             ELSE Undefined
       IN IF Truthy(fromRequest) THEN fromRequest
          ELSE IF "cookies" \in DOMAIN source /\ Truthy(source.cookies)
               THEN readCookieRequestFirst(source.cookies, name)
               ELSE Undefined

\* readCookie's branches for a source that is not a string, Headers or Request
\* are shared with the recursive calls, so the operator is recursive.
RECURSIVE readCookie(_, _)
readCookie(source, name) ==
  IF ~Truthy(source) THEN Undefined
  ELSE IF source.typeof = "string" THEN readCookieFromHeader(source, name)
  ELSE IF source.class = "Headers"
       THEN readCookieFromHeader(CallGet(source, CookieHeaderName), name)
  ELSE IF source.class = "Request" THEN readCookie(source.headers, name)
  ELSE IF isAstroCookies(source)
       THEN LET cookie == CallGet(source, name)
            IN IF cookie.typeof = "object" /\ "value" \in DOMAIN cookie
                  /\ cookie.value.typeof = "string"
               THEN cookie.value
               ELSE Undefined
  ELSE LET fromStore ==
             IF "cookies" \in DOMAIN source /\ Truthy(source.cookies)
             THEN readCookie(source.cookies, name)
             ELSE Undefined
       IN IF Truthy(fromStore) THEN fromStore
          ELSE IF "request" \in DOMAIN source /\ Truthy(source.request)
               THEN readCookie(source.request, name)
               ELSE Undefined

(***************************************************************************)
(* Cookie names                                                            *)
(***************************************************************************)
SecurePrefix == <<"_", "_", "S", "e", "c", "u", "r", "e", "-">>

\* the name better-auth gives the JWT cookie key without the secure prefix
\* ("better-auth.convex_jwt", abbreviated)
JWT_COOKIE_NAME == <<"j", "w", "t">>

EmptyObject == [typeof |-> "object"]

\* getStaticAuth(createAuth): the auth instance createAuth({}, {optionsOnly:
\* true}) returns, and the invocation of createAuth that made it; the factory
\* is given by the options of the instance it returns
getStaticAuth(createAuth) ==
  [auth |-> [options |-> createAuth],
   invoked |-> <<[ctx |-> EmptyObject, args |-> [optionsOnly |-> TRUE]]>>]

\* createCookieGetter(options)(key): the cookie better-auth sets for the key,
\* named with the secure prefix when the options ask for secure cookies
createCookieGetter(options, key) ==
  [name |-> IF options.useSecureCookies THEN SecurePrefix \o key ELSE key,
   given |-> options]

\* mutant: the cookie getter is asked for the name without the options of the
\* auth instance, so the name never carries the secure prefix
getCookieNameDefaultOptions(createAuth) ==
  createCookieGetter([useSecureCookies |-> FALSE], JWT_COOKIE_NAME).name

\* getCookieName(createAuth)
getCookieName(createAuth) ==
  createCookieGetter(getStaticAuth(createAuth).auth.options, JWT_COOKIE_NAME).name

\* mutant: the fallback lookup runs even when the token was found
getTokenAlwaysWarn(options, source) ==
  LET sessionCookieName == getCookieName(options)
      token == readCookie(source, sessionCookieName)
      isSecure == startsWith(sessionCookieName, SecurePrefix)
      insecureCookieName == replace(sessionCookieName, SecurePrefix, <<>>)
      secureCookieName ==
        IF isSecure THEN sessionCookieName ELSE SecurePrefix \o insecureCookieName
      secureToken == readCookie(source, secureCookieName)
      insecureToken == readCookie(source, insecureCookieName)
  IN [token |-> token,
      warnings |->
        (IF isSecure /\ Truthy(insecureToken)
         THEN <<[looking |-> sessionCookieName, found |-> insecureCookieName]>>
         ELSE <<>>)
        \o
        (IF ~isSecure /\ Truthy(secureToken)
         THEN <<[looking |-> sessionCookieName, found |-> secureCookieName]>>
         ELSE <<>>)]

\* mutant: when the configured cookie holds no token, the token found under the
\* other variant of the name is returned
getTokenFallback(options, source) ==
  LET sessionCookieName == getCookieName(options)
      token == readCookie(source, sessionCookieName)
      isSecure == startsWith(sessionCookieName, SecurePrefix)
      insecureCookieName == replace(sessionCookieName, SecurePrefix, <<>>)
      secureCookieName ==
        IF isSecure THEN sessionCookieName ELSE SecurePrefix \o insecureCookieName
      secureToken == readCookie(source, secureCookieName)
      insecureToken == readCookie(source, insecureCookieName)
  IN [token |->
        IF Truthy(token) THEN token
        ELSE IF isSecure /\ Truthy(insecureToken) THEN insecureToken
        ELSE IF ~isSecure /\ Truthy(secureToken) THEN secureToken
        ELSE token,
      warnings |->
        IF Truthy(token) THEN <<>>
        ELSE (IF isSecure /\ Truthy(insecureToken)
              THEN <<[looking |-> sessionCookieName, found |-> insecureCookieName]>>
              ELSE <<>>)
             \o
             (IF ~isSecure /\ Truthy(secureToken)
              THEN <<[looking |-> sessionCookieName, found |-> secureCookieName]>>
              ELSE <<>>)]

\* getToken returns the token; `warnings` is what it writes with console.warn
getToken(options, source) ==
  LET sessionCookieName == getCookieName(options)
      token == readCookie(source, sessionCookieName)
      isSecure == startsWith(sessionCookieName, SecurePrefix)
      insecureCookieName == replace(sessionCookieName, SecurePrefix, <<>>)
      secureCookieName ==
        IF isSecure THEN sessionCookieName ELSE SecurePrefix \o insecureCookieName
      secureToken == readCookie(source, secureCookieName)
      insecureToken == readCookie(source, insecureCookieName)
  IN [token |-> token,
      warnings |->
        IF Truthy(token) THEN <<>>
        ELSE (IF isSecure /\ Truthy(insecureToken)
              THEN <<[looking |-> sessionCookieName, found |-> insecureCookieName]>>
              ELSE <<>>)
             \o
             (IF ~isSecure /\ Truthy(secureToken)
              THEN <<[looking |-> sessionCookieName, found |-> secureCookieName]>>
              ELSE <<>>)]

(***************************************************************************)
(* The inbound request                                                     *)
(***************************************************************************)
SecureName == SecurePrefix \o JWT_COOKIE_NAME

OtherName == <<"x">>

PairNames == {SecureName, JWT_COOKIE_NAME}

PairValues == {<<"a">>, <<>>, <<"=", "%", "3", "D">>, <<"%">>}

\* what a user agent may put between two ";" of a Cookie header: the token
\* cookie under either name, another cookie, and (malformed) a bare word or
\* nothing
JarEntries ==
  [key : PairNames, eq : {TRUE}, value : PairValues]
    \cup {[key |-> OtherName, eq |-> TRUE, value |-> <<"a">>],
          [key |-> OtherName, eq |-> FALSE, value |-> <<>>],
          [key |-> <<>>, eq |-> FALSE, value |-> <<>>]}

SeqsUpTo(S, n) == UNION {[1..k -> S] : k \in 0..n}

SegmentOf(entry) == IF entry.eq THEN entry.key \o <<"=">> \o entry.value ELSE entry.key

\* the Cookie header a user agent sends for the entries, joined by "; "
RECURSIVE HeaderOf(_)
HeaderOf(pairs) ==
  IF pairs = <<>> THEN <<>>
  ELSE IF Len(pairs) = 1 THEN SegmentOf(pairs[1])
  ELSE SegmentOf(pairs[1]) \o <<";", " ">> \o HeaderOf(Tail(pairs))

\* request.headers.get("cookie")
CookieHeader(jar) == IF jar.sent THEN Str(HeaderOf(jar.pairs)) ELSE Null

StoreValues == {<<"s">>, <<>>}

Stores == UNION {[names -> StoreValues] : names \in SUBSET {SecureName, JWT_COOKIE_NAME}}

Shapes ==
  {"undefined", "string", "Headers", "Request", "AstroCookies",
   "context", "requestOnly", "cookiesOnly"}

\* the cookie source of the given shape for the current request
Source(shape, jar, st) ==
  CASE shape = "undefined" -> Undefined
    [] shape = "string" -> Nullish(CookieHeader(jar), Str(<<>>))
    [] shape = "Headers" -> Headers(CookieHeader(jar))
    [] shape = "Request" -> Request(CookieHeader(jar))
    [] shape = "AstroCookies" -> AstroCookies(st)
    [] shape = "context" -> Wrapper(AstroCookies(st), Request(CookieHeader(jar)))
    [] shape = "requestOnly" ->
         [typeof |-> "object", class |-> "Object", request |-> Request(CookieHeader(jar))]
    [] shape = "cookiesOnly" ->
         [typeof |-> "object", class |-> "Object", cookies |-> AstroCookies(st)]

(***************************************************************************)
(* Initial states                                                          *)
(***************************************************************************)
NoCall == [op |-> "none"]

\* the form while no page shows it
Unmounted == [status |-> "unmounted"]

InitLogs ==
  /\ convexInstances = <<>>
  /\ betterFetchCalls = <<>>
  /\ fetchCalls = <<>>
  /\ warnings = <<>>
  /\ clients = <<>>
  /\ last = NoCall
  /\ calls = 0
  /\ form = Unmounted

TokenInit ==
  /\ authOptions \in [useSecureCookies : BOOLEAN]
  /\ env = [PUBLIC_CONVEX_URL |-> Undefined, PUBLIC_CONVEX_SITE_URL |-> Undefined]
  /\ cookieJar \in {[sent |-> FALSE, pairs |-> <<>>]}
                     \cup [sent : {TRUE}, pairs : SeqsUpTo(JarEntries, MaxPairs)]
  /\ store \in Stores
  /\ InitLogs

(***************************************************************************)
(* Calls                                                                   *)
(***************************************************************************)
Return(v) == [kind |-> "return", value |-> v]

\* mutant: reading the token takes the cookie out of the cookie store
GetTokenConsuming(shape) ==
  /\ calls < MaxCalls
  /\ \E r \in {getToken(authOptions, Source(shape, cookieJar, store))} :
        /\ last' = [op |-> "getToken", source |-> shape,
                    outcome |-> Return(r.token), warned |-> r.warnings]
        /\ warnings' = warnings \o r.warnings
  /\ store' = [n \in DOMAIN store \ {getCookieName(authOptions)} |-> store[n]]
  /\ calls' = calls + 1
  /\ UNCHANGED <<form, authOptions, env, cookieJar, convexInstances,
                 betterFetchCalls, fetchCalls, clients>>

GetToken(shape) ==
  /\ calls < MaxCalls
  /\ \E r \in {getToken(authOptions, Source(shape, cookieJar, store))} :
        /\ last' = [op |-> "getToken", source |-> shape,
                    outcome |-> Return(r.token), warned |-> r.warnings]
        /\ warnings' = warnings \o r.warnings
  /\ calls' = calls + 1
  /\ UNCHANGED <<form, authOptions, env, cookieJar, store, convexInstances,
                 betterFetchCalls, fetchCalls, clients>>

\* getToken is a function of the options and the source: it is applied once to
\* each request drawn by TokenInit
\* getCookieName(createAuth), with what the mocks of createAuth and
\* createCookieGetter have been called with
GetCookieName ==
  /\ calls < MaxCalls
  /\ last' = [op |-> "getCookieName",
              outcome |-> Return(Str(getCookieName(authOptions))),
              factory |-> getStaticAuth(authOptions).invoked,
              getter |-> createCookieGetter(getStaticAuth(authOptions).auth.options,
                                            JWT_COOKIE_NAME).given]
  /\ calls' = calls + 1
  /\ UNCHANGED <<form, authOptions, env, cookieJar, store, convexInstances,
                 betterFetchCalls, fetchCalls, warnings, clients>>

TokenNext == \E shape \in Shapes : last = NoCall /\ GetToken(shape)

TokenSpec == TokenInit /\ [][TokenNext]_vars

(***************************************************************************)
(* Convex clients, session fetching                                        *)
(***************************************************************************)
Throw(message) == [kind |-> "throw", error |-> message]

Reject(message) == [kind |-> "reject", error |-> message]

Resolve(v) == [kind |-> "resolve", value |-> v]

\* opts?.field
OptionalField(opts, field) ==
  IF opts.typeof = "object" /\ field \in DOMAIN opts THEN opts[field] ELSE Undefined

\* mutant: the token is never handed to the client
createClientNoAuth(options, cookies, opts, environment) ==
  LET convexUrl == Nullish(OptionalField(opts, "convexUrl"), environment.PUBLIC_CONVEX_URL)
      t == getToken(options, cookies)
  IN IF ~Truthy(convexUrl)
     THEN [threw |-> TRUE, error |-> "PUBLIC_CONVEX_URL is not set", warnings |-> <<>>]
     ELSE [threw |-> FALSE,
           client |-> [url |-> convexUrl.text, setAuth |-> <<>>, sent |-> <<>>],
           warnings |-> t.warnings]

\* mutant: the client is built without checking that the URL is set
createClientUnchecked(options, cookies, opts, environment) ==
  LET convexUrl == Nullish(OptionalField(opts, "convexUrl"), environment.PUBLIC_CONVEX_URL)
      t == getToken(options, cookies)
  IN [threw |-> FALSE,
      client |-> [url |-> IF Truthy(convexUrl) THEN convexUrl.text ELSE <<>>,
                  setAuth |-> IF Truthy(t.token) THEN <<t.token>> ELSE <<>>,
                  sent |-> <<>>],
      warnings |-> t.warnings]

\* new ConvexHttpClient(convexUrl), then client.setAuth(token) when the token
\* is truthy; t is what getToken gave
newClient(convexUrl, t) ==
  [threw |-> FALSE,
   client |-> [url |-> convexUrl.text,
               setAuth |-> IF Truthy(t.token) THEN <<t.token>> ELSE <<>>,
               sent |-> <<>>],
   warnings |-> t.warnings]

\* mutant: the auth is set whenever the token is a string, the empty one
\* included
createClientAuthDefined(options, cookies, opts, environment) ==
  LET convexUrl == Nullish(OptionalField(opts, "convexUrl"), environment.PUBLIC_CONVEX_URL)
      t == getToken(options, cookies)
  IN IF ~Truthy(convexUrl)
     THEN [threw |-> TRUE, error |-> "PUBLIC_CONVEX_URL is not set", warnings |-> <<>>]
     ELSE [threw |-> FALSE,
           client |-> [url |-> convexUrl.text,
                       setAuth |-> IF t.token = Undefined THEN <<>> ELSE <<t.token>>,
                       sent |-> <<>>],
           warnings |-> t.warnings]

\* createClient of setupFetchClient: the client it builds, or the error thrown
createClient(options, cookies, opts, environment) ==
  LET convexUrl == Nullish(OptionalField(opts, "convexUrl"), environment.PUBLIC_CONVEX_URL)
  IN IF ~Truthy(convexUrl)
     THEN [threw |-> TRUE, error |-> "PUBLIC_CONVEX_URL is not set", warnings |-> <<>>]
     ELSE newClient(convexUrl, getToken(options, cookies))

\* made.query(query, args), made.mutation(...), made.action(...) on what
\* createClient made: the clients constructed and the outcome; response is
\* what the Convex client answers
callOn(made, method, reference, args, response) ==
  IF made.threw
  THEN [constructed |-> <<>>, warnings |-> <<>>, outcome |-> Throw(made.error)]
  ELSE [constructed |->
          <<[made.client EXCEPT
               !.sent = <<[method |-> method, reference |-> reference,
                           args |-> args, answer |-> response]>>]>>,
        warnings |-> made.warnings,
        outcome |-> response]

\* createClient().query(query, args), .mutation(...), .action(...)
clientCall(options, cookies, opts, environment, method, reference, args, response) ==
  callOn(createClient(options, cookies, opts, environment),
         method, reference, args, response)

\* mutant: a rejected session request is issued a second time
fetchSessionRetries(request, opts, environment, response) ==
  LET convexSiteUrl ==
        Nullish(OptionalField(opts, "convexSiteUrl"), environment.PUBLIC_CONVEX_SITE_URL)
      sent == [url |-> "/api/auth/get-session",
               baseURL |-> IF Truthy(convexSiteUrl) THEN convexSiteUrl.text ELSE <<>>,
               headers |->
                 [cookie |-> IF Truthy(request)
                             THEN Nullish(CallGet(request.headers, CookieHeaderName),
                                          Str(<<>>))
                             ELSE Str(<<>>)],
               answer |-> response]
  IN IF ~Truthy(request)
     THEN [issued |-> <<>>, outcome |-> Reject("No request found")]
     ELSE IF ~Truthy(convexSiteUrl)
     THEN [issued |-> <<>>, outcome |-> Reject("PUBLIC_CONVEX_SITE_URL is not set")]
     ELSE IF response.rejects
     THEN [issued |-> <<sent, sent>>, outcome |-> Reject("fetch failed")]
     ELSE [issued |-> <<sent>>,
           outcome |-> Resolve([session |-> Nullish(response.data, Null)])]

\* mutant: the response data is returned as it is, without `?? null`
fetchSessionNoDefault(request, opts, environment, response) ==
  LET convexSiteUrl ==
        Nullish(OptionalField(opts, "convexSiteUrl"), environment.PUBLIC_CONVEX_SITE_URL)
  IN IF ~Truthy(request)
     THEN [issued |-> <<>>, outcome |-> Reject("No request found")]
     ELSE IF ~Truthy(convexSiteUrl)
     THEN [issued |-> <<>>, outcome |-> Reject("PUBLIC_CONVEX_SITE_URL is not set")]
     ELSE [issued |->
             <<[url |-> "/api/auth/get-session",
                baseURL |-> convexSiteUrl.text,
                headers |->
                  [cookie |-> Nullish(CallGet(request.headers, CookieHeaderName),
                                      Str(<<>>))],
                answer |-> response]>>,
           outcome |->
             IF response.rejects THEN Reject("fetch failed")
             ELSE Resolve([session |-> response.data])]

\* fetchSession(request, opts): the betterFetch calls it issues and its outcome;
\* response is what betterFetch answers, [rejects, data]
fetchSession(request, opts, environment, response) ==
  LET convexSiteUrl ==
        Nullish(OptionalField(opts, "convexSiteUrl"), environment.PUBLIC_CONVEX_SITE_URL)
  IN IF ~Truthy(request)
     THEN [issued |-> <<>>, outcome |-> Reject("No request found")]
     ELSE IF ~Truthy(convexSiteUrl)
     THEN [issued |-> <<>>, outcome |-> Reject("PUBLIC_CONVEX_SITE_URL is not set")]
     ELSE [issued |->
             <<[url |-> "/api/auth/get-session",
                baseURL |-> convexSiteUrl.text,
                headers |->
                  [cookie |-> Nullish(CallGet(request.headers, CookieHeaderName),
                                      Str(<<>>))],
                answer |-> response]>>,
           outcome |->
             IF response.rejects THEN Reject("fetch failed")
             ELSE Resolve([session |-> Nullish(response.data, Null)])]

\* session?.user.id
UserIdOf(session) ==
  IF session.typeof \in {"undefined", "null"} THEN Undefined ELSE session.user.id

\* mutant: the token is read from the request instead of the whole context
getAuthTokenFromRequest(context, options, opts, environment, response) ==
  LET request == OptionalField(context, "request")
      t == getToken(options, request)
      fetched == fetchSession(request, opts, environment, response)
  IN IF ~Truthy(request)
     THEN [issued |-> <<>>, warnings |-> <<>>, outcome |-> Reject("No request found")]
     ELSE [issued |-> fetched.issued,
           warnings |-> t.warnings,
           outcome |->
             IF fetched.outcome.kind = "reject" THEN fetched.outcome
             ELSE Resolve([userId |-> UserIdOf(fetched.outcome.value.session),
                           token |-> t.token])]

\* mutant: the token is read before the request is looked for
getAuthTokenFirst(context, options, opts, environment, response) ==
  LET t == getToken(options, context)
  IN IF ~Truthy(OptionalField(context, "request"))
     THEN [issued |-> <<>>, warnings |-> t.warnings,
           outcome |-> Reject("No request found")]
     ELSE [issued |-> fetchSession(context.request, opts, environment, response).issued,
           warnings |-> t.warnings,
           outcome |->
             LET fetched == fetchSession(context.request, opts, environment, response)
             IN IF fetched.outcome.kind = "reject" THEN fetched.outcome
                ELSE Resolve([userId |-> UserIdOf(fetched.outcome.value.session),
                              token |-> t.token])]

\* mutant: the pair is all or nothing, each half given only with the other
authResultAllOrNothing(t, fetched) ==
  [issued |-> fetched.issued,
   warnings |-> t.warnings,
   outcome |->
     IF fetched.outcome.kind = "reject" THEN fetched.outcome
     ELSE IF Truthy(t.token) /\ Truthy(fetched.outcome.value.session)
     THEN Resolve([userId |-> UserIdOf(fetched.outcome.value.session),
                   token |-> t.token])
     ELSE Resolve([userId |-> Undefined, token |-> Undefined])]

\* the promise getAuth returns once the token is read and the session fetched
authResult(t, fetched) ==
  [issued |-> fetched.issued,
   warnings |-> t.warnings,
   outcome |->
     IF fetched.outcome.kind = "reject" THEN fetched.outcome
     ELSE Resolve([userId |-> UserIdOf(fetched.outcome.value.session),
                   token |-> t.token])]

\* getAuth(context, createAuth, opts)
getAuth(context, options, opts, environment, response) ==
  IF ~Truthy(OptionalField(context, "request"))
  THEN [issued |-> <<>>, warnings |-> <<>>, outcome |-> Reject("No request found")]
  ELSE authResult(getToken(options, context),
                  fetchSession(context.request, opts, environment, response))

(***************************************************************************)
(* The proxy handler                                                       *)
(***************************************************************************)
\* new URL(url): the first element of a URL text is its origin; pathname runs
\* to the first "?" or "#" and is "/" when empty, search runs from "?" to the
\* first "#" and is empty when it is a bare "?"
ParseURL(url) ==
  LET rest == Tail(url)
      h == IndexOfText(rest, <<"#">>)
      noHash == IF h = 0 THEN rest ELSE Take(rest, h - 1)
      qq == IndexOfText(noHash, <<"?">>)
      path == IF qq = 0 THEN noHash ELSE Take(noHash, qq - 1)
      query == IF qq = 0 THEN <<>> ELSE Drop(noHash, qq - 1)
  IN [origin |-> Head(url),
      pathname |-> IF path = <<>> THEN <<"/">> ELSE path,
      search |-> IF Len(query) = 1 THEN <<>> ELSE query]

\* the request fetch receives: new Request(nextUrl, request) with the
\* accept-encoding header set, and the init {method, redirect}; response is
\* what fetch answers
forwarded(nextUrl, request, redirect, response) ==
  [request |->
     [url |-> nextUrl,
      method |-> request.method,
      headers |-> [cookie |-> request.headers.cookie,
                   acceptEncoding |-> "application/json"],
      body |-> request.body],
   init |-> [method |-> request.method, redirect |-> redirect],
   answer |-> response]

\* mutant: the environment variable is preferred over the option
handlerEnvFirst(request, opts, environment, response) ==
  LET requestUrl == ParseURL(request.url)
      convexSiteUrl ==
        Nullish(environment.PUBLIC_CONVEX_SITE_URL, OptionalField(opts, "convexSiteUrl"))
  IN IF ~Truthy(convexSiteUrl)
     THEN [issued |-> <<>>, outcome |-> Throw("PUBLIC_CONVEX_SITE_URL is not set")]
     ELSE [issued |->
             <<forwarded(convexSiteUrl.text \o requestUrl.pathname \o requestUrl.search,
                         request, "manual", response)>>,
           outcome |-> response]

\* mutant: the query string of the inbound request is not forwarded
handlerDropsSearch(request, opts, environment, response) ==
  LET requestUrl == ParseURL(request.url)
      convexSiteUrl ==
        Nullish(OptionalField(opts, "convexSiteUrl"), environment.PUBLIC_CONVEX_SITE_URL)
  IN IF ~Truthy(convexSiteUrl)
     THEN [issued |-> <<>>, outcome |-> Throw("PUBLIC_CONVEX_SITE_URL is not set")]
     ELSE [issued |-> <<forwarded(convexSiteUrl.text \o requestUrl.pathname,
                                  request, "manual", response)>>,
           outcome |-> response]

\* mutant: the forward is sent with redirect "follow", so that a 302 answer is
\* followed by a second request and its answer is what the caller gets
handlerFollowsRedirect(request, opts, environment, response) ==
  LET requestUrl == ParseURL(request.url)
      convexSiteUrl ==
        Nullish(OptionalField(opts, "convexSiteUrl"), environment.PUBLIC_CONVEX_SITE_URL)
      nextUrl == convexSiteUrl.text \o requestUrl.pathname \o requestUrl.search
  IN IF ~Truthy(convexSiteUrl)
     THEN [issued |-> <<>>, outcome |-> Throw("PUBLIC_CONVEX_SITE_URL is not set")]
     ELSE IF response = Resolve([status |-> "302"])
     THEN [issued |-> <<forwarded(nextUrl, request, "follow", response),
                        forwarded(nextUrl, request, "follow",
                                  Resolve([status |-> "200"]))>>,
           outcome |-> Resolve([status |-> "200"])]
     ELSE [issued |-> <<forwarded(nextUrl, request, "follow", response)>>,
           outcome |-> response]

\* handler(request, opts): the fetch calls it issues and its outcome
handler(request, opts, environment, response) ==
  LET requestUrl == ParseURL(request.url)
      convexSiteUrl ==
        Nullish(OptionalField(opts, "convexSiteUrl"), environment.PUBLIC_CONVEX_SITE_URL)
  IN IF ~Truthy(convexSiteUrl)
     THEN [issued |-> <<>>, outcome |-> Throw("PUBLIC_CONVEX_SITE_URL is not set")]
     ELSE [issued |->
             <<forwarded(convexSiteUrl.text \o requestUrl.pathname \o requestUrl.search,
                         request, "manual", response)>>,
           outcome |-> response]

\* mutant: the handler is not async, so a throw of handler stays a throw
astroHandlerSync(opts, request, environment, response) ==
  handler(request, opts, environment, response)

\* astroHandler(opts): an async function around handler, so a throw of handler
\* is a rejected promise
astroHandler(opts, request, environment, response) ==
  LET r == handler(request, opts, environment, response)
  IN IF r.outcome.kind = "throw"
     THEN [issued |-> r.issued, outcome |-> Reject(r.outcome.error)]
     ELSE r

(***************************************************************************)
(* Helpers bound to createAuth                                             *)
(***************************************************************************)
\* setupFetchClient(createAuth, cookies, opts): the client object, a closure
\* over cookies and opts (and createAuth, which is the same for every client)
setupFetchClient(createAuth, cookies, opts) == [cookies |-> cookies, opts |-> opts]

\* createAstroAuthHelpers(createAuth).getToken(source)
helpersGetToken(createAuth, source) == getToken(createAuth, source)

\* mutant: the helper does not pass opts on
helpersGetAuthNoOpts(createAuth, context, opts, environment, response) ==
  getAuth(context, createAuth, Undefined, environment, response)

\* createAstroAuthHelpers(createAuth).getAuth(context, opts)
helpersGetAuth(createAuth, context, opts, environment, response) ==
  getAuth(context, createAuth, opts, environment, response)

\* createAstroAuthHelpers(createAuth).setupFetchClient(cookies, opts)
helpersSetupFetchClient(createAuth, cookies, opts) ==
  setupFetchClient(createAuth, cookies, opts)

(***************************************************************************)
(* The whole package: clients, Convex calls, session fetching              *)
(***************************************************************************)
EnvConvexUrl == <<"c", "e">>

OptConvexUrl == <<"c", "o">>

EnvSiteUrl == <<"s", "e">>

OptSiteUrl == <<"s", "o">>

ConvexOpts ==
  {Undefined,
   [typeof |-> "object", convexUrl |-> Str(OptConvexUrl)],
   [typeof |-> "object", convexUrl |-> Str(<<>>)]}

SiteOpts ==
  {Undefined,
   [typeof |-> "object", convexSiteUrl |-> Str(OptSiteUrl)],
   [typeof |-> "object", convexSiteUrl |-> Str(<<>>)]}

\* the requests of the client, session and whole-package specifications
Requests ==
  {[jar |-> [sent |-> FALSE, pairs |-> <<>>], store |-> <<>>],
   [jar |-> [sent |-> TRUE,
             pairs |-> <<[key |-> SecureName, eq |-> TRUE, value |-> <<"a">>]>>],
    store |-> <<>>],
   [jar |-> [sent |-> TRUE,
             pairs |-> <<[key |-> JWT_COOKIE_NAME, eq |-> TRUE, value |-> <<"a">>]>>],
    store |-> [n \in {JWT_COOKIE_NAME} |-> <<"s">>]],
   [jar |-> [sent |-> TRUE,
             pairs |-> <<[key |-> SecureName, eq |-> TRUE, value |-> <<"a">>]>>],
    store |-> [n \in {SecureName} |-> <<"s">>]]}

ClientShapes == {"undefined", "string", "AstroCookies", "context"}

ContextShapes == {"context", "requestOnly", "cookiesOnly"}

Methods == {"query", "mutation", "action"}

FunctionReference(method) == [type |-> method, name |-> "users.updateUsername"]

FunctionArgs == {[username |-> "ada"], [username |-> "bob"]}

\* what the Convex deployment answers to a call
ConvexResponses == {Resolve("result"), Reject("convex failed")}

SessionData == [typeof |-> "object", user |-> [id |-> Str(<<"u">>)]]

\* what betterFetch answers: {data}, or a rejected promise
FetchResponses ==
  [rejects : {FALSE}, data : {SessionData, Null, Undefined}]
    \cup {[rejects |-> TRUE, data |-> Undefined]}

\* what follows the origin in request.url, which is a serialised URL: a path
\* starting with "/", then possibly "?" and a query
InboundTargets ==
  {<<"/">>, <<"/", "p">>, <<"/", "p", "?", "x">>, <<"/", "p", "?">>,
   <<"/", "?", "x", "=", "/">>}

\* new Request(url, {method, headers, body})
InboundRequest(target, method, cookie) ==
  [url |-> <<"https://astro.dev">> \o target, method |-> method,
   headers |-> [cookie |-> cookie],
   body |-> IF method = "POST" THEN Str(<<"b">>) ELSE Null]

\* the requests the proxy handler receives
InboundRequests ==
  {InboundRequest(target, method, cookie) :
     target \in InboundTargets, method \in {"GET", "POST"},
     cookie \in {Null, Str(<<"x", "=", "a">>)}}

\* what the Convex site answers to a forwarded request
ProxyResponses ==
  {Resolve([status |-> "200"]), Resolve([status |-> "302"]), Reject("fetch failed")}

\* process.env and the inbound request of a deployment that sets the variables
\* named
InitWith(convexUrls, siteUrls, requests) ==
  /\ authOptions \in [useSecureCookies : BOOLEAN]
  /\ env \in [PUBLIC_CONVEX_URL : convexUrls, PUBLIC_CONVEX_SITE_URL : siteUrls]
  /\ \E r \in requests : cookieJar = r.jar /\ store = r.store
  /\ InitLogs

ClientInit == InitWith({Undefined, Str(EnvConvexUrl)}, {Undefined}, Requests)

SessionInit == InitWith({Undefined}, {Undefined, Str(EnvSiteUrl)}, Requests)

ProxyInit ==
  InitWith({Undefined}, {Undefined, Str(EnvSiteUrl)},
           {[jar |-> [sent |-> FALSE, pairs |-> <<>>], store |-> <<>>]})

Init ==
  InitWith({Undefined, Str(EnvConvexUrl)}, {Undefined, Str(EnvSiteUrl)}, Requests)

\* setupFetchClient(createAuth, cookies, opts): resolves with the client object,
\* which keeps cookies and opts
SetupFetchClient(shape, opts) ==
  /\ Len(clients) < MaxClients
  /\ clients' = Append(clients, setupFetchClient(authOptions, shape, opts))
  /\ last' = [op |-> "setupFetchClient", cookies |-> shape, opts |-> opts,
              outcome |-> Resolve(Len(clients) + 1)]
  /\ UNCHANGED <<form, authOptions, env, cookieJar, store, convexInstances,
                 betterFetchCalls, fetchCalls, warnings, calls>>

\* mutant: one Convex client is kept and used by every call, so that the auth
\* one call sets stays set for the next
ConvexCallShared(i, method, reference, args, response) ==
  /\ calls < MaxCalls
  /\ \E r \in {clientCall(authOptions, Source(clients[i].cookies, cookieJar, store),
                          clients[i].opts, env, method, reference, args, response)} :
        /\ convexInstances' =
             IF convexInstances = <<>> \/ r.constructed = <<>>
             THEN convexInstances \o r.constructed
             ELSE [convexInstances EXCEPT
                     ![1].setAuth = @ \o r.constructed[1].setAuth,
                     ![1].sent = @ \o r.constructed[1].sent]
        /\ warnings' = warnings \o r.warnings
        /\ last' = [op |-> method, client |-> i, reference |-> reference,
                    args |-> args, outcome |-> r.outcome, warned |-> r.warnings]
  /\ calls' = calls + 1
  /\ UNCHANGED <<form, authOptions, env, cookieJar, store, betterFetchCalls, fetchCalls,
                 clients>>

\* mutant: the token is read by the first call and kept for the later ones
ConvexCallCachedToken(i, method, reference, args, response) ==
  /\ calls < MaxCalls
  /\ \E r \in {clientCall(authOptions, Source(clients[i].cookies, cookieJar, store),
                          clients[i].opts, env, method, reference, args, response)} :
        /\ convexInstances' =
             IF convexInstances = <<>> \/ r.constructed = <<>>
             THEN convexInstances \o r.constructed
             ELSE Append(convexInstances,
                         [r.constructed[1] EXCEPT !.setAuth = convexInstances[1].setAuth])
        /\ warnings' = warnings \o r.warnings
        /\ last' = [op |-> method, client |-> i, reference |-> reference,
                    args |-> args, outcome |-> r.outcome, warned |-> r.warnings]
  /\ calls' = calls + 1
  /\ UNCHANGED <<form, authOptions, env, cookieJar, store, betterFetchCalls, fetchCalls,
                 clients>>

\* client.fetchQuery / fetchMutation / fetchAction (reference, args)
ConvexCall(i, method, reference, args, response) ==
  /\ calls < MaxCalls
  /\ \E r \in {clientCall(authOptions, Source(clients[i].cookies, cookieJar, store),
                          clients[i].opts, env, method, reference, args, response)} :
        /\ convexInstances' = convexInstances \o r.constructed
        /\ warnings' = warnings \o r.warnings
        /\ last' = [op |-> method, client |-> i, reference |-> reference,
                    args |-> args, outcome |-> r.outcome, warned |-> r.warnings]
  /\ calls' = calls + 1
  /\ UNCHANGED <<form, authOptions, env, cookieJar, store, betterFetchCalls, fetchCalls,
                 clients>>

FetchQuery(i, args, response) ==
  ConvexCall(i, "query", FunctionReference("query"), args, response)

FetchMutation(i, args, response) ==
  ConvexCall(i, "mutation", FunctionReference("mutation"), args, response)

FetchAction(i, args, response) ==
  ConvexCall(i, "action", FunctionReference("action"), args, response)

\* fetchSession(request, opts); given = FALSE is a call without a request
FetchSession(given, opts, response) ==
  /\ calls < MaxCalls
  /\ \E r \in {fetchSession(IF given THEN Request(CookieHeader(cookieJar)) ELSE Undefined,
                            opts, env, response)} :
        /\ betterFetchCalls' = betterFetchCalls \o r.issued
        /\ last' = [op |-> "fetchSession", given |-> given, opts |-> opts,
                    issued |-> r.issued, outcome |-> r.outcome]
  /\ calls' = calls + 1
  /\ UNCHANGED <<form, authOptions, env, cookieJar, store, convexInstances, fetchCalls,
                 warnings, clients>>

\* getAuth(context, createAuth, opts)
GetAuth(shape, opts, response) ==
  /\ calls < MaxCalls
  /\ \E r \in {getAuth(Source(shape, cookieJar, store), authOptions, opts, env, response)} :
        /\ betterFetchCalls' = betterFetchCalls \o r.issued
        /\ warnings' = warnings \o r.warnings
        /\ last' = [op |-> "getAuth", context |-> shape, opts |-> opts,
                    issued |-> r.issued, outcome |-> r.outcome,
                    warned |-> r.warnings]
  /\ calls' = calls + 1
  /\ UNCHANGED <<form, authOptions, env, cookieJar, store, convexInstances, fetchCalls,
                 clients>>

\* the handler astroHandler(opts) returns, called with {request}
AstroHandler(opts, request, response) ==
  /\ calls < MaxCalls
  /\ \E r \in {astroHandler(opts, request, env, response)} :
        /\ fetchCalls' = fetchCalls \o r.issued
        /\ last' = [op |-> "astroHandler", opts |-> opts, request |-> request,
                    issued |-> r.issued, outcome |-> r.outcome]
  /\ calls' = calls + 1
  /\ UNCHANGED <<form, authOptions, env, cookieJar, store, convexInstances,
                 betterFetchCalls, warnings, clients>>

\* the Convex clients: every cookie source, option, argument and answer, one
\* call in a behaviour
ClientNext ==
  \/ \E shape \in ClientShapes, opts \in ConvexOpts : SetupFetchClient(shape, opts)
  \/ \E i \in DOMAIN clients, args \in FunctionArgs, response \in ConvexResponses :
       calls = 0 /\ FetchQuery(i, args, response)
  \/ \E i \in DOMAIN clients, args \in FunctionArgs, response \in ConvexResponses :
       calls = 0 /\ FetchMutation(i, args, response)
  \/ \E i \in DOMAIN clients, args \in FunctionArgs, response \in ConvexResponses :
       calls = 0 /\ FetchAction(i, args, response)

ClientSpec == ClientInit /\ [][ClientNext]_vars

\* session fetching: every context, option and answer, one call in a behaviour
SessionNext ==
  \/ \E given \in BOOLEAN, opts \in SiteOpts, response \in FetchResponses :
       calls = 0 /\ FetchSession(given, opts, response)
  \/ \E shape \in ContextShapes, opts \in SiteOpts, response \in FetchResponses :
       calls = 0 /\ GetAuth(shape, opts, response)

SessionSpec == SessionInit /\ [][SessionNext]_vars

\* the proxy: every inbound request, option and answer, one call in a behaviour
ProxyNext ==
  \E opts \in SiteOpts, request \in InboundRequests, response \in ProxyResponses :
     calls = 0 /\ AstroHandler(opts, request, response)

ProxySpec == ProxyInit /\ [][ProxyNext]_vars

\* client objects built from different cookie sources of the same inbound
\* request, then up to MaxCalls calls one after another
StatelessInit ==
  InitWith({Str(EnvConvexUrl)}, {Str(EnvSiteUrl)},
           {r \in Requests : JWT_COOKIE_NAME \in DOMAIN r.store})

StatelessNext ==
  \/ \E shape \in {"context", "string", "undefined"} :
       calls = 0 /\ SetupFetchClient(shape, Undefined)
  \/ \E i \in DOMAIN clients :
       FetchQuery(i, [username |-> "ada"], Resolve("result"))
  \/ \E i \in DOMAIN clients :
       FetchMutation(i, [username |-> "ada"], Resolve("result"))
  \/ \E i \in DOMAIN clients :
       FetchAction(i, [username |-> "ada"], Reject("convex failed"))
  \/ FetchSession(TRUE, Undefined, [rejects |-> FALSE, data |-> SessionData])
  \/ GetToken("context")

StatelessSpec == StatelessInit /\ [][StatelessNext]_vars

\* a deployment that sets the variables the README names, the variables the
\* code reads, both or neither; every operation is called without opts
\* the session cookie as a request may carry it: under either name, with a
\* token or with nothing after the "="
TokenEntries == [key : PairNames, eq : {TRUE}, value : {<<"a">>, <<>>}]

\* a deployment with its Convex URL set, and every request of up to MaxPairs
\* session cookies with every cookie store
AuthInit ==
  InitWith({Str(EnvConvexUrl)}, {Undefined},
           [jar : {[sent |-> FALSE, pairs |-> <<>>]}
                    \cup [sent : {TRUE}, pairs : SeqsUpTo(TokenEntries, MaxPairs)],
            store : Stores])

\* one client object, then one call
AuthNext ==
  \/ \E shape \in ClientShapes : clients = <<>> /\ SetupFetchClient(shape, Undefined)
  \/ \E i \in DOMAIN clients, response \in ConvexResponses :
       calls = 0 /\ FetchQuery(i, [username |-> "ada"], response)
  \/ \E i \in DOMAIN clients, response \in ConvexResponses :
       calls = 0 /\ FetchMutation(i, [username |-> "ada"], response)
  \/ \E i \in DOMAIN clients, response \in ConvexResponses :
       calls = 0 /\ FetchAction(i, [username |-> "ada"], response)
  \/ \E shape \in ClientShapes : calls = 0 /\ clients = <<>> /\ GetToken(shape)

AuthSpec == AuthInit /\ [][AuthNext]_vars

\* the application sets the session cookie in the cookie store of the request:
\* cookies.get(name) of the same store gives the new value from then on
CookiesSet(name, value) ==
  /\ store' = [n \in DOMAIN store \cup {name} |-> IF n = name THEN value ELSE store[n]]
  /\ store' # store
  /\ UNCHANGED <<form, authOptions, env, cookieJar, convexInstances, betterFetchCalls,
                 fetchCalls, warnings, clients, last, calls>>

\* the application deletes the cookie from the cookie store of the request
CookiesDelete(name) ==
  /\ name \in DOMAIN store
  /\ store' = [n \in DOMAIN store \ {name} |-> store[n]]
  /\ UNCHANGED <<form, authOptions, env, cookieJar, convexInstances, betterFetchCalls,
                 fetchCalls, warnings, clients, last, calls>>

\* the tokens the application may put in the cookie store
LiveValues == {<<"s">>, <<"t">>}

\* a request whose cookie store starts with or without the session cookie
LiveInit ==
  InitWith({Str(EnvConvexUrl)}, {Undefined},
           {[jar |-> [sent |-> FALSE, pairs |-> <<>>], store |-> <<>>],
            [jar |-> [sent |-> TRUE,
                      pairs |-> <<[key |-> JWT_COOKIE_NAME, eq |-> TRUE, value |-> <<"a">>]>>],
             store |-> [n \in {JWT_COOKIE_NAME} |-> <<"s">>]]})

\* one client object built from the live request, then up to MaxCalls calls
\* with the application changing the cookie store in between
LiveNext ==
  \/ \E shape \in {"context", "AstroCookies"} :
       clients = <<>> /\ SetupFetchClient(shape, Undefined)
  \/ \E value \in LiveValues : CookiesSet(getCookieName(authOptions), value)
  \/ CookiesDelete(getCookieName(authOptions))
  \/ \E i \in DOMAIN clients :
       FetchQuery(i, [username |-> "ada"], Resolve("result"))
  \/ \E i \in DOMAIN clients :
       FetchMutation(i, [username |-> "ada"], Resolve("result"))
  \/ \E i \in DOMAIN clients :
       FetchAction(i, [username |-> "ada"], Reject("convex failed"))

LiveSpec == LiveInit /\ [][LiveNext]_vars

\* what a user agent or a proxy may put between two ";" of a Cookie header:
\* the session cookie with its key padded or percent-encoded, values holding
\* "=" or a malformed escape, other cookies, keys that cannot be decoded, a
\* bare word and nothing
HeaderEntries ==
  [key : {JWT_COOKIE_NAME, <<" ">> \o JWT_COOKIE_NAME, JWT_COOKIE_NAME \o <<" ">>,
          <<"j", "%", "7", "7", "t">>, SecureName, OtherName, <<"%">>, <<>>},
   eq : {TRUE}, value : {<<"a">>, <<"b">>}]
    \cup [key : {JWT_COOKIE_NAME, SecureName}, eq : {TRUE},
          value : {<<"a", "=", "b">>, <<"%", "3", "D">>, <<"%">>}]
    \cup {[key |-> OtherName, eq |-> TRUE, value |-> <<"%">>],
          [key |-> JWT_COOKIE_NAME, eq |-> FALSE, value |-> <<>>],
          [key |-> <<>>, eq |-> FALSE, value |-> <<>>]}

\* every Cookie header of up to MaxPairs such segments
HeaderInit ==
  /\ authOptions \in [useSecureCookies : BOOLEAN]
  /\ env = [PUBLIC_CONVEX_URL |-> Undefined, PUBLIC_CONVEX_SITE_URL |-> Undefined]
  /\ cookieJar \in [sent : {TRUE}, pairs : SeqsUpTo(HeaderEntries, MaxPairs)]
  /\ store = <<>>
  /\ InitLogs

\* getToken applied once to the header, given as a string, as Headers, as a
\* Request or in a context
HeaderNext ==
  \E shape \in {"string", "Headers", "Request", "requestOnly"} :
     last = NoCall /\ GetToken(shape)

HeaderSpec == HeaderInit /\ [][HeaderNext]_vars

(***************************************************************************)
(* The example application: the updateUsername action on a shared client   *)
(***************************************************************************)
\* the auth a ConvexHttpClient sends: what setAuth was last called with,
\* nothing when it never was
authOf(client) ==
  IF client.setAuth = <<>> THEN Undefined ELSE client.setAuth[Len(client.setAuth)]

\* const token = getToken(context); if (token) client.setAuth(token);
\* client.mutation(api.users.updateUsername, {username: input.name}) on the
\* client of the module: the client afterwards, with the mutation in flight
updateUsername(client, options, context, input) ==
  LET t == getToken(options, context)
      authed == IF Truthy(t.token)
                THEN [client EXCEPT !.setAuth = Append(@, t.token)]
                ELSE client
  IN [client |->
        [authed EXCEPT
           !.sent = Append(@, [method |-> "mutation",
                               reference |-> FunctionReference("mutation"),
                               args |-> [username |-> input.name],
                               auth |-> authOf(authed),
                               answer |-> [kind |-> "pending"]])],
      token |-> t.token,
      warnings |-> t.warnings]

\* the requests of two signed-in users and of a visitor who is not signed in
ActionRequests ==
  {[jar |-> [sent |-> FALSE, pairs |-> <<>>], store |-> <<>>]}
    \cup {[jar |-> [sent |-> TRUE,
                    pairs |-> <<[key |-> JWT_COOKIE_NAME, eq |-> TRUE, value |-> v],
                                [key |-> SecureName, eq |-> TRUE, value |-> v]>>],
           store |-> <<>>] : v \in {<<"a">>, <<"b">>}}

\* the module is loaded: const client = new ConvexHttpClient(PUBLIC_CONVEX_URL)
ActionsInit ==
  /\ authOptions \in [useSecureCookies : BOOLEAN]
  /\ env = [PUBLIC_CONVEX_URL |-> Str(EnvConvexUrl), PUBLIC_CONVEX_SITE_URL |-> Undefined]
  /\ cookieJar = [sent |-> FALSE, pairs |-> <<>>]
  /\ store = <<>>
  /\ convexInstances = <<[url |-> EnvConvexUrl, setAuth |-> <<>>, sent |-> <<>>]>>
  /\ betterFetchCalls = <<>>
  /\ fetchCalls = <<>>
  /\ warnings = <<>>
  /\ clients = <<>>
  /\ last = NoCall
  /\ calls = 0
  /\ form = Unmounted

\* a request arrives and the handler of updateUsername runs up to its await
UpdateUsername(request, input) ==
  /\ calls < MaxCalls
  /\ cookieJar' = request.jar
  /\ store' = request.store
  /\ \E r \in {updateUsername(convexInstances[1], authOptions,
                              Source("context", request.jar, request.store), input)} :
        /\ convexInstances' = [convexInstances EXCEPT ![1] = r.client]
        /\ warnings' = warnings \o r.warnings
        /\ last' = [op |-> "updateUsername", input |-> input, token |-> r.token,
                    mutation |-> Len(r.client.sent)]
  /\ calls' = calls + 1
  /\ UNCHANGED <<form, authOptions, env, betterFetchCalls, fetchCalls, clients>>

\* the mutation k settles and its handler returns {success: true}, or rejects
\* with the mutation's error
UpdateUsernameSettles(k, response) ==
  /\ k \in DOMAIN convexInstances[1].sent
  /\ convexInstances[1].sent[k].answer.kind = "pending"
  /\ convexInstances' = [convexInstances EXCEPT ![1].sent[k].answer = response]
  /\ last' = [op |-> "updateUsernameSettles", mutation |-> k,
              outcome |-> IF response.kind = "resolve"
                          THEN Resolve([success |-> TRUE]) ELSE response]
  /\ UNCHANGED <<form, authOptions, env, cookieJar, store, betterFetchCalls, fetchCalls,
                 warnings, clients, calls>>

\* requests arrive one after another, each while earlier mutations may still
\* be in flight
ActionsNext ==
  \/ \E request \in ActionRequests : UpdateUsername(request, [name |-> "ada"])
  \/ \E k \in 1..MaxCalls, response \in ConvexResponses : UpdateUsernameSettles(k, response)

ActionsSpec == ActionsInit /\ [][ActionsNext]_vars

(***************************************************************************)
(* The example application: the middleware                                 *)
(***************************************************************************)
\* context.locals after the catch block
NullLocals == [user |-> Null, session |-> Null, convexToken |-> Null]

\* mutant: the catch block resets the user and the session and leaves the
\* token as it was
onRequestKeepsToken(context, options, convexSiteUrl, environment, response, locals) ==
  LET t == getToken(options, context)
      fetched == fetchSession(context.request,
                              IF Truthy(convexSiteUrl)
                              THEN [typeof |-> "object", convexSiteUrl |-> convexSiteUrl]
                              ELSE Undefined,
                              environment, response)
  IN [issued |-> fetched.issued,
      warnings |-> t.warnings,
      locals |->
        IF fetched.outcome.kind = "reject"
        THEN [NullLocals EXCEPT !.convexToken = locals.convexToken]
        ELSE [user |-> Nullish(OptionalField(fetched.outcome.value.session, "user"), Null),
              session |->
                Nullish(OptionalField(fetched.outcome.value.session, "session"), Null),
              convexToken |-> Nullish(t.token, Null)],
      next |-> <<"next">>]

\* onRequest(context, next) up to its return: the session request it issued,
\* context.locals as it leaves them (locals is what they held before) and the
\* calls of next it made
onRequest(context, options, convexSiteUrl, environment, response, locals) ==
  LET t == getToken(options, context)
      fetched == fetchSession(context.request,
                              IF Truthy(convexSiteUrl)
                              THEN [typeof |-> "object", convexSiteUrl |-> convexSiteUrl]
                              ELSE Undefined,
                              environment, response)
  IN [issued |-> fetched.issued,
      warnings |-> t.warnings,
      locals |->
        IF fetched.outcome.kind = "reject"
        THEN NullLocals
        ELSE [user |-> Nullish(OptionalField(fetched.outcome.value.session, "user"), Null),
              session |->
                Nullish(OptionalField(fetched.outcome.value.session, "session"), Null),
              convexToken |-> Nullish(t.token, Null)],
      next |-> <<"next">>]

\* what get-session answers the middleware: a session with its user, null,
\* nothing, or a failed request
MiddlewareResponses ==
  [rejects : {FALSE},
   data : {[typeof |-> "object", user |-> [typeof |-> "object", id |-> Str(<<"u">>)],
            session |-> [typeof |-> "object", id |-> Str(<<"i">>)]],
           Null, Undefined}]
    \cup {[rejects |-> TRUE, data |-> Undefined]}

\* context.locals when the middleware starts: empty, or set by earlier code
LocalsBefore ==
  {[user |-> Undefined, session |-> Undefined, convexToken |-> Undefined],
   [user |-> [typeof |-> "object", id |-> Str(<<"o">>)],
    session |-> [typeof |-> "object", id |-> Str(<<"o">>)],
    convexToken |-> Str(<<"o">>)]}

\* what the rest of the request pipeline answers next()
NextOutcomes == {Resolve("page"), Reject("render failed")}

\* the middleware runs for the request; convexSiteUrl is
\* import.meta.env.PUBLIC_CONVEX_SITE_URL
OnRequest(convexSiteUrl, response, locals, rendered) ==
  /\ calls < MaxCalls
  /\ \E r \in {onRequest(Source("context", cookieJar, store), authOptions, convexSiteUrl,
                         env, response, locals)} :
        /\ betterFetchCalls' = betterFetchCalls \o r.issued
        /\ warnings' = warnings \o r.warnings
        /\ last' = [op |-> "onRequest", before |-> locals, issued |-> r.issued,
                    locals |-> r.locals, next |-> r.next, outcome |-> rendered]
  /\ calls' = calls + 1
  /\ UNCHANGED <<form, authOptions, env, cookieJar, store, convexInstances, fetchCalls,
                 clients>>

\* the middleware on every request, with and without the site URL, whatever
\* get-session and the rest of the pipeline answer
MiddlewareNext ==
  \E convexSiteUrl \in {Undefined, Str(OptSiteUrl)}, response \in MiddlewareResponses,
     locals \in LocalsBefore, rendered \in NextOutcomes :
       calls = 0 /\ OnRequest(convexSiteUrl, response, locals, rendered)

MiddlewareSpec == SessionInit /\ [][MiddlewareNext]_vars

(***************************************************************************)
(* The example application: the sign-in / sign-up form                     *)
(***************************************************************************)
\* String.prototype.toLowerCase on the modelled alphabet, whose one capital
\* letter is "A"
toLowerCase(s) == [i \in 1..Len(s) |-> IF s[i] = "A" THEN "a" ELSE s[i]]

\* /^[^\s@]+@[^\s@]+\.[^\s@]+$/.test(s)
emailPattern(s) ==
  /\ \A i \in 1..Len(s) : s[i] \notin Whitespace
  /\ \E i \in 2..Len(s) :
        /\ s[i] = "@"
        /\ \A k \in 1..Len(s) : k # i => s[k] # "@"
        /\ \E j \in (i + 2)..(Len(s) - 1) : s[j] = "."

\* /^[a-zA-Z0-9._-]+$/.test(s), on the modelled alphabet
usernamePattern(s) ==
  /\ s # <<>>
  /\ \A i \in 1..Len(s) : s[i] \in {"a", "b", "c", "d", "l", "A", ".", "_", "-"}

\* values.username ?? ""
UsernameOf(values) == IF "username" \in DOMAIN values THEN values.username ELSE <<>>

validateUsername(input) ==
  LET username == trim(input)
  IN IF username = <<>>
     THEN [ok |-> FALSE, error |-> "Pick a username so we know what to call you."]
     ELSE IF Len(username) < 3
     THEN [ok |-> FALSE, error |-> "Usernames need at least 3 characters."]
     ELSE IF Len(username) > 32
     THEN [ok |-> FALSE, error |-> "Usernames can be up to 32 characters long."]
     ELSE IF ~usernamePattern(username)
     THEN [ok |-> FALSE,
           error |-> "Usernames can only use letters, numbers, dots, underscores, and hyphens."]
     ELSE [ok |-> TRUE, value |-> username]

validateAuthForm(mode, values) ==
  LET email == toLowerCase(trim(values.email))
      password == values.password
      usernameResult == validateUsername(UsernameOf(values))
  IN IF email = <<>> \/ ~emailPattern(email)
     THEN [ok |-> FALSE, error |-> "Enter a valid email address."]
     ELSE IF trim(password) = <<>>
     THEN [ok |-> FALSE, error |-> "Enter your password."]
     ELSE IF mode = "signUp" /\ Len(password) < 8
     THEN [ok |-> FALSE, error |-> "Choose a password that's at least 8 characters long."]
     ELSE IF mode = "signUp" /\ ~usernameResult.ok
     THEN usernameResult
     ELSE [ok |-> TRUE,
           values |-> IF mode = "signUp"
                      THEN [email |-> email, password |-> password,
                            username |-> usernameResult.value]
                      ELSE [email |-> email, password |-> password]]

\* the `error` of what the auth client resolved with, null when it has none
extractResultError(result) ==
  IF result.typeof = "object" /\ "error" \in DOMAIN result /\ Truthy(result.error)
  THEN result.error ELSE Null

CODE_MESSAGES ==
  [code \in {"invalid_credentials"} |-> "Invalid email or password."]

\* friendlyAuthError on the errors of the model: the message of a known code,
\* else the error's own message, else the fallback
friendlyAuthError(error, fallback) ==
  IF "code" \in DOMAIN error /\ error.code \in DOMAIN CODE_MESSAGES
  THEN CODE_MESSAGES[error.code]
  ELSE IF "message" \in DOMAIN error THEN error.message
  ELSE fallback

fallbackMessage(mode) ==
  IF mode = "signIn"
  THEN "Unable to sign you in. Double-check your email and password and try again."
  ELSE "Unable to create your account right now. Please try again."

initialValues ==
  [mode \in {"signIn", "signUp"} |->
     IF mode = "signIn" THEN [email |-> <<>>, password |-> <<>>]
     ELSE [email |-> <<>>, password |-> <<>>, username |-> <<>>]]

\* handleSubmit up to its first await: f is the form with the values the user
\* submits
handleSubmit(f) ==
  LET validation == validateAuthForm(f.mode, f.values)
      sanitized == validation.values
  IN IF ~validation.ok
     THEN [f EXCEPT !.status = "error", !.errorMessage = validation.error]
     ELSE [f EXCEPT
             !.values = [k \in DOMAIN f.values \cup
                                 (IF f.mode = "signUp" THEN {"username"} ELSE {}) |->
                           IF k = "email" THEN sanitized.email
                           ELSE IF k = "username" /\ f.mode = "signUp"
                           THEN sanitized.username
                           ELSE f.values[k]],
             !.status = "pending",
             !.errorMessage = "null",
             !.remote =
               Append(@, [endpoint |-> f.mode,
                          body |-> IF f.mode = "signIn"
                                   THEN [email |-> sanitized.email,
                                         password |-> sanitized.password]
                                   ELSE [name |-> sanitized.username,
                                         email |-> sanitized.email,
                                         password |-> sanitized.password],
                          fallback |-> fallbackMessage(f.mode),
                          answer |-> [kind |-> "pending"]])]

\* handleSubmit after its await, when the call k has settled with response;
\* the React handler resets the values of the mode it was created for, the
\* Svelte one those of the current mode
handleSubmitResumes(f, k, response) ==
  LET call == f.remote[k]
      settled == [f EXCEPT !.remote[k].answer = response]
      resultError ==
        IF response.kind = "resolve" THEN extractResultError(response.value) ELSE Null
      thrown ==
        IF response.kind = "reject" THEN response.error
        ELSE [typeof |-> "object",
              message |-> friendlyAuthError(resultError, call.fallback)]
  IN IF response.kind = "resolve" /\ ~Truthy(resultError)
     THEN [settled EXCEPT
             !.status = "success",
             !.errorMessage = "null",
             !.values = initialValues[IF f.framework = "react"
                                      THEN call.endpoint ELSE f.mode]]
     ELSE [settled EXCEPT
             !.status = "error",
             !.errorMessage = friendlyAuthError(thrown, call.fallback)]

\* the effect that runs when the mode changes
modeEffect(f, mode) ==
  [f EXCEPT !.mode = mode, !.values = initialValues[mode], !.status = "idle",
            !.errorMessage = "null"]

\* what the user may have typed in the fields of the form
FormInputs ==
  [email : {<<" ", "A", "@", "b", ".", "c">>, <<"a", "@", "b">>},
   password : {<<"p", "a", "s", "s", "w", "o", "r", "d">>, <<"p", "w">>, <<" ">>},
   username : {<<"a", "d", "a">>, <<"a", "l">>}]

\* what signIn.email and signUp.email answer: a result without error, a
\* result with an error, or a rejected promise
AuthResponses ==
  {Resolve([typeof |-> "object", data |-> "user", error |-> Null]),
   Resolve([typeof |-> "object", data |-> "null",
            error |-> [typeof |-> "object", code |-> "invalid_credentials"]]),
   Reject([typeof |-> "object", message |-> "Failed to fetch"])}

\* the page shows the form, in React or in Svelte, in sign-in mode
FormInit ==
  /\ authOptions = [useSecureCookies |-> FALSE]
  /\ env = [PUBLIC_CONVEX_URL |-> Undefined, PUBLIC_CONVEX_SITE_URL |-> Undefined]
  /\ cookieJar = [sent |-> FALSE, pairs |-> <<>>]
  /\ store = <<>>
  /\ convexInstances = <<>>
  /\ betterFetchCalls = <<>>
  /\ fetchCalls = <<>>
  /\ warnings = <<>>
  /\ clients = <<>>
  /\ last = NoCall
  /\ calls = 0
  /\ \E framework \in {"react", "svelte"} :
        form = [framework |-> framework, mode |-> "signIn",
                values |-> initialValues["signIn"], status |-> "idle",
                errorMessage |-> "null", remote |-> <<>>]

\* the user fills the fields shown and submits the form; the fields and the
\* submit button are disabled while the status is "pending"
HandleSubmit(typed) ==
  /\ calls < MaxSubmits
  /\ form.status # "pending"
  /\ form' = handleSubmit([form EXCEPT
                             !.values = [k \in DOMAIN initialValues[form.mode] |-> typed[k]]])
  /\ last' = [op |-> "handleSubmit", typed |-> typed,
              issued |-> Len(form'.remote) - Len(form.remote)]
  /\ calls' = calls + 1
  /\ UNCHANGED <<authOptions, env, cookieJar, store, convexInstances, betterFetchCalls,
                 fetchCalls, warnings, clients>>

\* the remote call k settles and its handler runs to its end
HandleSubmitResumes(k, response) ==
  /\ k \in DOMAIN form.remote
  /\ form.remote[k].answer.kind = "pending"
  /\ form' = handleSubmitResumes(form, k, response)
  /\ last' = [op |-> "handleSubmitResumes", call |-> k, answer |-> response]
  /\ UNCHANGED <<authOptions, env, cookieJar, store, convexInstances, betterFetchCalls,
                 fetchCalls, warnings, clients, calls>>

\* the user presses the button of the other mode, which is never disabled
SetMode(mode) ==
  /\ mode # form.mode
  /\ form' = modeEffect(form, mode)
  /\ last' = [op |-> "setMode", mode |-> mode]
  /\ UNCHANGED <<authOptions, env, cookieJar, store, convexInstances, betterFetchCalls,
                 fetchCalls, warnings, clients, calls>>

FormNext ==
  \/ \E typed \in FormInputs : HandleSubmit(typed)
  \/ \E k \in 1..MaxSubmits, response \in AuthResponses : HandleSubmitResumes(k, response)
  \/ \E mode \in {"signIn", "signUp"} : SetMode(mode)

FormSpec == FormInit /\ [][FormNext]_vars

ViteConvexUrl == <<"c", "v">>

ViteSiteUrl == <<"s", "v">>

EnvInit ==
  /\ authOptions \in [useSecureCookies : BOOLEAN]
  /\ env \in [PUBLIC_CONVEX_URL : {Undefined, Str(EnvConvexUrl)},
              PUBLIC_CONVEX_SITE_URL : {Undefined, Str(EnvSiteUrl)},
              VITE_CONVEX_URL : {Undefined, Str(ViteConvexUrl)},
              VITE_CONVEX_SITE_URL : {Undefined, Str(ViteSiteUrl)}]
  /\ \E r \in {q \in Requests : q.store # <<>>} : cookieJar = r.jar /\ store = r.store
  /\ InitLogs

EnvNext ==
  \/ SetupFetchClient("context", Undefined)
  \/ \E i \in DOMAIN clients, response \in ConvexResponses :
       calls = 0 /\ FetchQuery(i, [username |-> "ada"], response)
  \/ \E i \in DOMAIN clients, response \in ConvexResponses :
       calls = 0 /\ FetchMutation(i, [username |-> "ada"], response)
  \/ \E i \in DOMAIN clients, response \in ConvexResponses :
       calls = 0 /\ FetchAction(i, [username |-> "ada"], response)
  \/ \E response \in FetchResponses :
       calls = 0 /\ FetchSession(TRUE, Undefined, response)
  \/ \E response \in FetchResponses :
       calls = 0 /\ GetAuth("context", Undefined, response)
  \/ \E response \in ProxyResponses :
       calls = 0 /\ AstroHandler(Undefined, InboundRequest(<<"/", "p">>, "GET", Null),
                                 response)

EnvSpec == EnvInit /\ [][EnvNext]_vars

\* helpers.getToken(source)
HelpersGetToken(shape) ==
  /\ calls < MaxCalls
  /\ \E r \in {helpersGetToken(authOptions, Source(shape, cookieJar, store))} :
        /\ last' = [op |-> "helpers.getToken", source |-> shape,
                    outcome |-> Return(r.token), warned |-> r.warnings]
        /\ warnings' = warnings \o r.warnings
  /\ calls' = calls + 1
  /\ UNCHANGED <<form, authOptions, env, cookieJar, store, convexInstances,
                 betterFetchCalls, fetchCalls, clients>>

\* helpers.getAuth(context, opts)
HelpersGetAuth(shape, opts, response) ==
  /\ calls < MaxCalls
  /\ \E r \in {helpersGetAuth(authOptions, Source(shape, cookieJar, store), opts, env,
                                response)} :
        /\ betterFetchCalls' = betterFetchCalls \o r.issued
        /\ warnings' = warnings \o r.warnings
        /\ last' = [op |-> "helpers.getAuth", context |-> shape, opts |-> opts,
                    issued |-> r.issued, outcome |-> r.outcome,
                    warned |-> r.warnings]
  /\ calls' = calls + 1
  /\ UNCHANGED <<form, authOptions, env, cookieJar, store, convexInstances, fetchCalls,
                 clients>>

\* helpers.setupFetchClient(cookies, opts)
HelpersSetupFetchClient(shape, opts) ==
  /\ Len(clients) < MaxClients
  /\ clients' = Append(clients, helpersSetupFetchClient(authOptions, shape, opts))
  /\ last' = [op |-> "helpers.setupFetchClient", cookies |-> shape, opts |-> opts,
              outcome |-> Resolve(Len(clients) + 1)]
  /\ UNCHANGED <<form, authOptions, env, cookieJar, store, convexInstances,
                 betterFetchCalls, fetchCalls, warnings, calls>>

\* the helpers of createAstroAuthHelpers(createAuth) and the calls through the
\* clients they build, one call in a behaviour
HelpersNext ==
  \/ \E shape \in Shapes : calls = 0 /\ HelpersGetToken(shape)
  \/ \E shape \in ContextShapes, opts \in SiteOpts, response \in FetchResponses :
       calls = 0 /\ HelpersGetAuth(shape, opts, response)
  \/ \E shape \in {"context", "string"},
        opts \in {Undefined, [typeof |-> "object", convexUrl |-> Str(OptConvexUrl)]} :
       HelpersSetupFetchClient(shape, opts)
  \/ \E i \in DOMAIN clients, response \in ConvexResponses :
       calls = 0 /\ FetchQuery(i, [username |-> "ada"], response)
  \/ \E i \in DOMAIN clients, response \in ConvexResponses :
       calls = 0 /\ FetchMutation(i, [username |-> "ada"], response)
  \/ \E i \in DOMAIN clients, response \in ConvexResponses :
       calls = 0 /\ FetchAction(i, [username |-> "ada"], response)

HelpersSpec == Init /\ [][HelpersNext]_vars

\* the operations together, one call in a behaviour
Next ==
  \/ \E opts \in ConvexOpts : SetupFetchClient("context", opts)
  \/ \E i \in DOMAIN clients, args \in FunctionArgs, response \in ConvexResponses :
       calls = 0 /\ FetchQuery(i, args, response)
  \/ \E i \in DOMAIN clients, args \in FunctionArgs, response \in ConvexResponses :
       calls = 0 /\ FetchMutation(i, args, response)
  \/ \E i \in DOMAIN clients, args \in FunctionArgs, response \in ConvexResponses :
       calls = 0 /\ FetchAction(i, args, response)
  \/ \E given \in BOOLEAN, opts \in SiteOpts, response \in FetchResponses :
       calls = 0 /\ FetchSession(given, opts, response)
  \/ \E shape \in ContextShapes, opts \in SiteOpts, response \in FetchResponses :
       calls = 0 /\ GetAuth(shape, opts, response)
  \/ \E opts \in SiteOpts, response \in ProxyResponses,
        request \in {InboundRequest(<<"/">>, "GET", Null),
                     InboundRequest(<<"/", "p", "?", "x">>, "POST", Str(<<"x", "=", "a">>))} :
       calls = 0 /\ AstroHandler(opts, request, response)
  \/ \E shape \in Shapes : calls = 0 /\ GetToken(shape)
  \/ calls = 0 /\ GetCookieName

Spec == Init /\ [][Next]_vars

(***************************************************************************)
(* What the request holds, read off the cookie jar and the store           *)
(***************************************************************************)
ConfiguredName == getCookieName(authOptions)

OtherVariant == IF authOptions.useSecureCookies THEN JWT_COOKIE_NAME ELSE SecureName

RECURSIVE FirstValue(_, _)
FirstValue(pairs, n) ==
  IF pairs = <<>> THEN Undefined
  ELSE IF Head(pairs).eq /\ Head(pairs).key = n
       THEN Str(safeDecode(Head(pairs).value))
       ELSE FirstValue(Tail(pairs), n)

\* the value the user agent sent for the cookie n
SentValue(n) == IF cookieJar.sent THEN FirstValue(cookieJar.pairs, n) ELSE Undefined

\* the value the Astro cookie store holds for the cookie n
StoredValue(n) == IF n \in DOMAIN store THEN Str(store[n]) ELSE Undefined

HeaderShapes == {"string", "Headers", "Request", "requestOnly"}

\* the value a source of the given shape holds for the cookie n
Located(shape, n) ==
  CASE shape = "undefined" -> Undefined
    [] shape \in HeaderShapes -> SentValue(n)
    [] shape = "AstroCookies" -> StoredValue(n)
    [] shape = "cookiesOnly" ->
         IF Truthy(StoredValue(n)) THEN StoredValue(n) ELSE Undefined
    [] shape = "context" ->
         IF Truthy(StoredValue(n)) THEN StoredValue(n) ELSE SentValue(n)

\* the cookie n occurs in the parts of the request the shape exposes
Occurs(shape, n) ==
  CASE shape = "undefined" -> FALSE
    [] shape \in HeaderShapes -> SentValue(n) # Undefined
    [] shape \in {"AstroCookies", "cookiesOnly"} -> n \in DOMAIN store
    [] shape = "context" -> n \in DOMAIN store \/ SentValue(n) # Undefined

IsGetToken == last.op = "getToken"

(***************************************************************************)
(* Claims                                                                  *)
(***************************************************************************)

\* C1: for a cookie header string as the source, getToken returns the value of
\* the (first) cookie of the header whose name is the configured session
\* cookie name, and undefined when the header has no such cookie.
C1_TokenFromHeaderString ==
  (IsGetToken /\ last.source = "string")
    => last.outcome = Return(SentValue(ConfiguredName))

\* C1 witness: the session cookie is the second pair of the header string and
\* its value is returned.
C1_Witness ==
  /\ IsGetToken /\ last.source = "string"
  /\ Len(cookieJar.pairs) = 2
  /\ cookieJar.pairs[1].key = OtherName
  /\ cookieJar.pairs[2] = [key |-> ConfiguredName, eq |-> TRUE, value |-> <<"a">>]
  /\ last.outcome = Return(Str(<<"a">>))

\* C2: readCookie settles on the first matching shape in the order string,
\* Headers, Request, Astro cookie store, wrapper: a string, a Headers object
\* and a Request are read as a cookie header whatever the store holds, a
\* cookie store is read through its get function, and a wrapper is read from
\* its cookies and then its request.
C2_FirstShapeWins ==
  IsGetToken =>
    /\ last.source \in {"string", "Headers", "Request"}
         => last.outcome = Return(SentValue(ConfiguredName))
    /\ last.source = "AstroCookies"
         => last.outcome = Return(StoredValue(ConfiguredName))
    /\ last.source \in {"context", "requestOnly", "cookiesOnly"}
         => last.outcome = Return(Located(last.source, ConfiguredName))

\* C2 witness: a Headers object whose cookie header holds the session cookie
\* yields the header's value.
C2_Witness ==
  /\ IsGetToken /\ last.source = "Headers"
  /\ SentValue(ConfiguredName) = Str(<<"a">>)
  /\ last.outcome = Return(Str(<<"a">>))

\* C3: for a context with a cookie store and a request, getToken returns the
\* store's value whenever it is non-empty, whatever the request's cookie
\* header holds, and the header's value only when the store yields no
\* non-empty value.
C3_StoreBeforeRequest ==
  (IsGetToken /\ last.source = "context") =>
    IF Truthy(StoredValue(ConfiguredName))
    THEN last.outcome = Return(StoredValue(ConfiguredName))
    ELSE last.outcome = Return(SentValue(ConfiguredName))

\* C3 witness: store and header hold different values for the session cookie
\* and the store's value is returned.
C3_Witness ==
  /\ IsGetToken /\ last.source = "context"
  /\ StoredValue(ConfiguredName) = Str(<<"s">>)
  /\ SentValue(ConfiguredName) = Str(<<"a">>)
  /\ last.outcome = Return(Str(<<"s">>))

\* C3 witness of the fallback: the store holds nothing and the header's value
\* is returned.
C3_WitnessFallback ==
  /\ IsGetToken /\ last.source = "context"
  /\ ~Truthy(StoredValue(ConfiguredName))
  /\ last.outcome = Return(Str(<<"a">>))

\* C4 as stated: a warning is emitted exactly when the configured cookie is
\* absent from the source and the other secure/insecure variant is present.
C4_Original ==
  IsGetToken =>
    (last.warned # <<>>
       <=> (~Occurs(last.source, ConfiguredName) /\ Occurs(last.source, OtherVariant)))

\* C4 amended: a warning, naming the configured cookie and the other variant,
\* is emitted exactly when the source yields no non-empty value under the
\* configured name and a non-empty value under the other variant; the token
\* returned is the value under the configured name either way.
C4_WarnOnWrongVariant ==
  IsGetToken =>
    /\ last.warned \in
         {<<>>, <<[looking |-> ConfiguredName, found |-> OtherVariant]>>}
    /\ last.warned # <<>>
         <=> (~Truthy(Located(last.source, ConfiguredName))
                /\ Truthy(Located(last.source, OtherVariant)))
    /\ last.outcome = Return(Located(last.source, ConfiguredName))

\* C4 witness: the configured cookie is absent, the other variant is present
\* and one warning was emitted.
C4_Witness ==
  /\ IsGetToken
  /\ ~Occurs(last.source, ConfiguredName)
  /\ Truthy(Located(last.source, OtherVariant))
  /\ Len(last.warned) = 1
  /\ warnings = last.warned

\* C5: when the session cookie cannot be located (no source, no cookie
\* header, a store without the cookie, a header without a pair of the
\* configured name) getToken returns undefined and does not throw.
C5_UndefinedWhenNotLocated ==
  (IsGetToken /\ ~Occurs(last.source, ConfiguredName))
    => last.outcome = Return(Undefined)

\* C5 witness: a header that holds other cookies but not the session cookie.
C5_Witness ==
  /\ IsGetToken /\ last.source = "Request"
  /\ cookieJar.sent /\ Len(cookieJar.pairs) = 2
  /\ \A i \in 1..2 : cookieJar.pairs[i].eq /\ cookieJar.pairs[i].key # ConfiguredName
  /\ last.outcome = Return(Undefined)

\* C5 witness: a cookie store without the session cookie.
C5_WitnessStore ==
  /\ IsGetToken /\ last.source = "AstroCookies"
  /\ ConfiguredName \notin DOMAIN store
  /\ last.outcome = Return(Undefined)

\* the option is given in opts
Given(opts, field) == OptionalField(opts, field).typeof \notin {"undefined", "null"}

\* the URL in force: the option when given, the environment variable otherwise
Chosen(opts, field, envValue) == IF Given(opts, field) THEN opts[field] ELSE envValue

LastInstance == convexInstances[Len(convexInstances)]

\* the step is a call of the named operation
Called(op) == calls' = calls + 1 /\ last'.op = op

\* C6: when the cookie source holds a session token and the Convex URL is
\* configured, a fetchQuery call constructs exactly one Convex HTTP client for
\* the configured URL, sets its auth to that token, hands the query reference
\* and the arguments unchanged to the client and returns the client's answer.
C6_FetchQueryCarriesToken ==
  [][(/\ Called("query")
      /\ Truthy(Located(clients[last'.client].cookies, ConfiguredName))
      /\ Truthy(Chosen(clients[last'.client].opts, "convexUrl", env.PUBLIC_CONVEX_URL)))
     => /\ convexInstances' =
             Append(convexInstances,
                    [url |-> Chosen(clients[last'.client].opts, "convexUrl",
                                    env.PUBLIC_CONVEX_URL).text,
                     setAuth |-> <<Located(clients[last'.client].cookies, ConfiguredName)>>,
                     sent |-> <<[method |-> "query",
                                 reference |-> last'.reference,
                                 args |-> last'.args,
                                 answer |-> last'.outcome]>>])
        /\ last'.outcome \in ConvexResponses]_vars

\* C6 witness: a query went out on a client authenticated with the store's
\* token and resolved with the client's result.
C6_Witness ==
  /\ last.op = "query"
  /\ clients[last.client].cookies = "context"
  /\ Len(convexInstances) = 1
  /\ LastInstance.setAuth = <<Str(<<"s">>)>>
  /\ LastInstance.sent[1].args = last.args
  /\ last.outcome = Resolve("result")

C8_OptsOverrideEnvironment ==
  /\ last.op \in Methods =>
       LET url == Chosen(clients[last.client].opts, "convexUrl", env.PUBLIC_CONVEX_URL)
       IN IF Truthy(url)
          THEN last.outcome.kind # "throw" /\ LastInstance.url = url.text
          ELSE last.outcome.kind = "throw"
  /\ (last.op = "fetchSession" /\ last.given) =>
       LET url == Chosen(last.opts, "convexSiteUrl", env.PUBLIC_CONVEX_SITE_URL)
       IN IF Truthy(url)
          THEN Len(last.issued) = 1 /\ last.issued[1].baseURL = url.text
          ELSE last.issued = <<>>
  /\ (last.op = "getAuth" /\ last.context # "cookiesOnly") =>
       LET url == Chosen(last.opts, "convexSiteUrl", env.PUBLIC_CONVEX_SITE_URL)
       IN IF Truthy(url)
          THEN Len(last.issued) = 1 /\ last.issued[1].baseURL = url.text
          ELSE last.issued = <<>>
  /\ last.op = "astroHandler" =>
       LET url == Chosen(last.opts, "convexSiteUrl", env.PUBLIC_CONVEX_SITE_URL)
       IN IF Truthy(url)
          THEN /\ Len(last.issued) = 1
               /\ startsWith(last.issued[1].request.url, url.text)
          ELSE last.issued = <<>>

\* C8 witness: the proxy handler forwarded to the URL of opts although the
\* environment holds another site URL.
C8_Witness ==
  /\ last.op = "astroHandler"
  /\ env.PUBLIC_CONVEX_SITE_URL = Str(EnvSiteUrl)
  /\ Given(last.opts, "convexSiteUrl")
  /\ Len(last.issued) = 1
  /\ startsWith(last.issued[1].request.url, OptSiteUrl)

\* C9: fetchSession issues exactly one betterFetch request, for
\* "/api/auth/get-session" against the Convex site URL, whose only header is
\* the inbound request's cookie header verbatim (the empty string when there
\* is none), and resolves with {session} holding the response data, null when
\* the response carries no data.
C9_FetchSessionForwardsCookie ==
  [][(/\ Called("fetchSession") /\ last'.given
      /\ Truthy(Chosen(last'.opts, "convexSiteUrl", env.PUBLIC_CONVEX_SITE_URL)))
     => /\ Len(betterFetchCalls') = Len(betterFetchCalls) + 1
        /\ SubSeq(betterFetchCalls', 1, Len(betterFetchCalls)) = betterFetchCalls
        /\ LET call == betterFetchCalls'[Len(betterFetchCalls')]
           IN /\ call.url = "/api/auth/get-session"
              /\ call.baseURL =
                   Chosen(last'.opts, "convexSiteUrl", env.PUBLIC_CONVEX_SITE_URL).text
              /\ DOMAIN call.headers = {"cookie"}
              /\ call.headers.cookie =
                   (IF cookieJar.sent THEN Str(HeaderOf(cookieJar.pairs)) ELSE Str(<<>>))
              /\ ~call.answer.rejects =>
                   /\ last'.outcome.kind = "resolve"
                   /\ DOMAIN last'.outcome.value = {"session"}
                   /\ last'.outcome.value.session # Undefined
                   /\ last'.outcome.value.session =
                        (IF call.answer.data \in {Undefined, Null}
                         THEN Null ELSE call.answer.data)]_vars

\* C9 witness: the response carried no data (undefined) and the session is
\* null, for a request without a cookie header.
C9_Witness ==
  /\ last.op = "fetchSession"
  /\ ~cookieJar.sent
  /\ Len(last.issued) = 1
  /\ last.issued[1].headers.cookie = Str(<<>>)
  /\ last.issued[1].answer.data = Undefined
  /\ last.outcome = Resolve([session |-> Null])

\* C10: getAuth resolves with {userId, token}: userId is the id of the user of
\* the session fetched with the cookie header of the context's request, and
\* token is what getToken yields for the whole context, the cookie store
\* before the request header.
C10_GetAuthPair ==
  (last.op = "getAuth" /\ last.outcome.kind = "resolve") =>
    /\ Len(last.issued) = 1
    /\ last.issued[1].headers.cookie = Nullish(CookieHeader(cookieJar), Str(<<>>))
    /\ DOMAIN last.outcome.value = {"userId", "token"}
    /\ last.outcome.value.userId =
         (IF last.issued[1].answer.data \in {Undefined, Null}
          THEN Undefined ELSE last.issued[1].answer.data.user.id)
    /\ last.outcome.value.token = Located(last.context, ConfiguredName)

\* C10 witness: the store and the request header hold different tokens; the
\* pair carries the user id of the session and the store's token.
C10_Witness ==
  /\ last.op = "getAuth" /\ last.context = "context"
  /\ StoredValue(ConfiguredName) = Str(<<"s">>)
  /\ SentValue(ConfiguredName) = Str(<<"a">>)
  /\ last.outcome = Resolve([userId |-> Str(<<"u">>), token |-> Str(<<"s">>)])

\* the path and query string of a request URL as the user agent sent them: what
\* follows the origin, a "?" with nothing after it being no query string
PathAndQuery(url) ==
  LET t == Tail(url)
  IN IF t # <<>> /\ t[Len(t)] = "?" /\ (\A i \in 1..(Len(t) - 1) : t[i] # "?")
     THEN Take(t, Len(t) - 1)
     ELSE t

LastFetch == fetchCalls[Len(fetchCalls)]

\* C11: whenever the Convex site URL is set, the handler of astroHandler hands
\* fetch exactly one request whose URL is the site URL followed by the path and
\* query string of the inbound request, whose method is the inbound method and
\* whose accept-encoding header is "application/json", with the inbound method
\* and redirect "manual" as init.
C11_ForwardsPathAndQuery ==
  [][(/\ Called("astroHandler")
      /\ Truthy(Chosen(last'.opts, "convexSiteUrl", env.PUBLIC_CONVEX_SITE_URL)))
     => /\ Len(fetchCalls') = Len(fetchCalls) + 1
        /\ LET sent == fetchCalls'[Len(fetchCalls')]
               site == Chosen(last'.opts, "convexSiteUrl", env.PUBLIC_CONVEX_SITE_URL)
           IN /\ sent.request.url = site.text \o PathAndQuery(last'.request.url)
              /\ sent.request.method = last'.request.method
              /\ sent.request.headers.acceptEncoding = "application/json"
              /\ sent.init.method = last'.request.method
              /\ sent.init.redirect = "manual"]_vars

\* C11 witness: a POST for /p?x went to the site URL of the environment with
\* its path and query string.
C11_Witness ==
  /\ last.op = "astroHandler"
  /\ last.request.method = "POST"
  /\ last.request.url = <<"https://astro.dev", "/", "p", "?", "x">>
  /\ Len(fetchCalls) = 1
  /\ LastFetch.request.url = EnvSiteUrl \o <<"/", "p", "?", "x">>
  /\ LastFetch.init = [method |-> "POST", redirect |-> "manual"]

C19_UpstreamResponseAsReceived ==
  [][(/\ Called("astroHandler")
      /\ Truthy(Chosen(last'.opts, "convexSiteUrl", env.PUBLIC_CONVEX_SITE_URL)))
     => /\ Len(fetchCalls') = Len(fetchCalls) + 1
        /\ fetchCalls'[Len(fetchCalls')].init.redirect = "manual"
        /\ last'.outcome = fetchCalls'[Len(fetchCalls')].answer]_vars

\* C19 witness: the Convex site answered 302; the handler resolved with that
\* response after a single fetch.
C19_Witness ==
  /\ last.op = "astroHandler"
  /\ Len(fetchCalls) = 1
  /\ LastFetch.answer = Resolve([status |-> "302"])
  /\ last.outcome = Resolve([status |-> "302"])

\* the Convex calls made on the clients constructed
RECURSIVE SentOn(_)
SentOn(instances) ==
  IF instances = <<>> THEN 0
  ELSE Len(Head(instances).sent) + SentOn(Tail(instances))

\* the outbound requests issued so far: session requests, forwarded requests
\* and Convex calls
Outbound == Len(betterFetchCalls) + Len(fetchCalls) + SentOn(convexInstances)

Lookups == {"getToken", "getCookieName"}

Requesters == Methods \cup {"fetchSession", "getAuth", "astroHandler"}

\* the call recorded in last is one the operation refuses for want of a
\* request or of a URL
ConfigurationError(call, clientsNow) ==
  CASE call.op \in Methods ->
         ~Truthy(Chosen(clientsNow[call.client].opts, "convexUrl", env.PUBLIC_CONVEX_URL))
    [] call.op = "fetchSession" ->
         \/ ~call.given
         \/ ~Truthy(Chosen(call.opts, "convexSiteUrl", env.PUBLIC_CONVEX_SITE_URL))
    [] call.op = "getAuth" ->
         \/ call.context = "cookiesOnly"
         \/ ~Truthy(Chosen(call.opts, "convexSiteUrl", env.PUBLIC_CONVEX_SITE_URL))
    [] call.op = "astroHandler" ->
         ~Truthy(Chosen(call.opts, "convexSiteUrl", env.PUBLIC_CONVEX_SITE_URL))
    [] OTHER -> FALSE

\* the answers the outbound requests of the step received
NewAnswers ==
  [i \in 1..(Len(betterFetchCalls') - Len(betterFetchCalls)) |->
     betterFetchCalls'[Len(betterFetchCalls) + i].answer]
  \o [i \in 1..(Len(fetchCalls') - Len(fetchCalls)) |->
        fetchCalls'[Len(fetchCalls) + i].answer]
  \o [i \in 1..(Len(convexInstances') - Len(convexInstances)) |->
        convexInstances'[Len(convexInstances) + i].sent[1].answer]

Failed(answer) ==
  IF "rejects" \in DOMAIN answer THEN answer.rejects ELSE answer.kind = "reject"

\* C13 as stated: a call issues at most one outbound request, getToken and
\* getCookieName none, every fetchSession, getAuth, fetchQuery, fetchMutation,
\* fetchAction and handler call exactly one, and a failed request is handed to
\* the caller as a failure.
C13_Original ==
  [][(calls' = calls + 1)
     => /\ Outbound' <= Outbound + 1
        /\ last'.op \in Lookups => Outbound' = Outbound
        /\ last'.op \in Requesters => Outbound' = Outbound + 1
        /\ \A i \in DOMAIN NewAnswers :
              Failed(NewAnswers[i]) => last'.outcome.kind = "reject"]_vars

\* C13 (amended): a call issues at most one outbound request and never a
\* second one after a failure; getToken and getCookieName issue none; a
\* fetchSession, getAuth, fetchQuery, fetchMutation, fetchAction or handler
\* call issues exactly one unless it is refused for a missing request or URL,
\* and then none; a failed request is handed to the caller as a failure.
C13_AtMostOneRequest ==
  [][(calls' = calls + 1)
     => /\ Outbound' <= Outbound + 1
        /\ last'.op \in Lookups => Outbound' = Outbound
        /\ last'.op \in Requesters =>
              Outbound' = Outbound + (IF ConfigurationError(last', clients) THEN 0 ELSE 1)
        /\ \A i \in DOMAIN NewAnswers :
              Failed(NewAnswers[i]) => last'.outcome.kind = "reject"]_vars

\* C13 witness: the session request of getAuth was rejected; getAuth rejected
\* and one request is all that went out.
C13_Witness ==
  /\ last.op = "getAuth"
  /\ Len(betterFetchCalls) = 1
  /\ betterFetchCalls[1].answer.rejects
  /\ last.outcome.kind = "reject"
  /\ Outbound = 1

\* C14: whatever calls came before, a fetchQuery, fetchMutation or fetchAction
\* call leaves the clients constructed so far as they are and runs on one new
\* Convex HTTP client, which carries that call alone and whose auth was set
\* once, to the token of the cookie source of its own client object, or not at
\* all when that source holds no token.
C14_FreshClientPerCall ==
  [][(/\ calls' = calls + 1
      /\ last'.op \in Methods
      /\ Truthy(Chosen(clients[last'.client].opts, "convexUrl", env.PUBLIC_CONVEX_URL)))
     => /\ Len(convexInstances') = Len(convexInstances) + 1
        /\ SubSeq(convexInstances', 1, Len(convexInstances)) = convexInstances
        /\ LET fresh == convexInstances'[Len(convexInstances')]
               own == Located(clients[last'.client].cookies, ConfiguredName)
           IN /\ fresh.setAuth = (IF Truthy(own) THEN <<own>> ELSE <<>>)
              /\ Len(fresh.sent) = 1
              /\ fresh.sent[1].method = last'.op]_vars

\* C14 witness: a call through a client built from the context ran with the
\* store's token, then a call through a client built without cookies ran on
\* a second Convex client with no auth.
C14_Witness ==
  /\ Len(clients) = 2
  /\ clients[1].cookies = "context" /\ clients[2].cookies = "undefined"
  /\ Len(convexInstances) = 2
  /\ convexInstances[1].setAuth = <<Str(<<"s">>)>>
  /\ convexInstances[2].setAuth = <<>>
  /\ last.op \in Methods /\ last.client = 2

\* what getToken may return for the requests of the specifications
TokenValues == {Undefined, Str(<<"s">>), Str(<<"a">>)}

\* C18: a getToken call leaves the request's cookie header and cookie store
\* as they are, and once getToken has returned a value for a source, every
\* later getToken call for that source returns the same value, whatever
\* getToken, fetchSession, fetchQuery, fetchMutation or fetchAction calls are
\* made in between.
C18_GetTokenStateless ==
  /\ [][Called("getToken") => UNCHANGED <<authOptions, cookieJar, store>>]_vars
  /\ \A v \in TokenValues :
       []((IsGetToken /\ last.outcome = Return(v))
            => [](IsGetToken => last.outcome = Return(v)))

\* C18 witness: of three calls one was fetchSession and two were getToken, the
\* last of them a getToken that returned the store's token.
C18_Witness ==
  /\ calls = 3
  /\ Len(betterFetchCalls) = 1 /\ convexInstances = <<>>
  /\ IsGetToken /\ last.outcome = Return(Str(<<"s">>))

\* C15 as stated: without opts, the Convex clients are constructed with the
\* URL of VITE_CONVEX_URL and the session requests and forwards go to the URL
\* of VITE_CONVEX_SITE_URL; when the variable is missing the call fails with
\* "VITE_CONVEX_URL is not set", "VITE_CONVEX_SITE_URL is not set".
C15_Original ==
  /\ last.op \in Methods =>
       IF Truthy(env.VITE_CONVEX_URL)
       THEN /\ last.outcome.kind # "throw"
            /\ convexInstances # <<>> /\ LastInstance.url = env.VITE_CONVEX_URL.text
       ELSE last.outcome = Throw("VITE_CONVEX_URL is not set")
  /\ last.op \in {"fetchSession", "getAuth"} =>
       IF Truthy(env.VITE_CONVEX_SITE_URL)
       THEN /\ Len(last.issued) = 1
            /\ last.issued[1].baseURL = env.VITE_CONVEX_SITE_URL.text
       ELSE last.outcome = Reject("VITE_CONVEX_SITE_URL is not set")
  /\ last.op = "astroHandler" =>
       IF Truthy(env.VITE_CONVEX_SITE_URL)
       THEN /\ Len(last.issued) = 1
            /\ startsWith(last.issued[1].request.url, env.VITE_CONVEX_SITE_URL.text)
       ELSE last.outcome = Reject("VITE_CONVEX_SITE_URL is not set")

\* the name better-auth's cookie getter gives the JWT cookie for the options
\* of the auth instance
GetterName == createCookieGetter(authOptions, JWT_COOKIE_NAME).name

C16_WitnessToken ==
  /\ IsGetToken /\ last.source = "Request"
  /\ authOptions.useSecureCookies
  /\ SentValue(SecurePrefix \o JWT_COOKIE_NAME) = Str(<<"a">>)
  /\ last.outcome = Return(Str(<<"a">>))

\* what betterFetch answered in the step, when it was called
AnswerOf(call) ==
  IF call.issued = <<>> THEN [rejects |-> FALSE, data |-> Null]
  ELSE call.issued[1].answer

\* C17: a call of a helper of createAstroAuthHelpers(createAuth) returns what
\* the standalone function returns for createAuth and the same arguments, and
\* has the same effects: helpers.getToken(source) the value and the warnings
\* of getToken(createAuth, source) and no request; helpers.getAuth(context,
\* opts) the outcome, the session request and the warnings of getAuth(context,
\* createAuth, opts); helpers.setupFetchClient(cookies, opts) the client
\* object of setupFetchClient(createAuth, cookies, opts).
C17_HelpersAreBound ==
  [][/\ Called("helpers.getToken") =>
          LET r == getToken(authOptions, Source(last'.source, cookieJar, store))
          IN /\ last'.outcome = Return(r.token)
             /\ warnings' = warnings \o r.warnings
             /\ Outbound' = Outbound
     /\ Called("helpers.getAuth") =>
          LET r == getAuth(Source(last'.context, cookieJar, store), authOptions,
                           last'.opts, env, AnswerOf(last'))
          IN /\ last'.outcome = r.outcome
             /\ betterFetchCalls' = betterFetchCalls \o r.issued
             /\ warnings' = warnings \o r.warnings
             /\ UNCHANGED <<fetchCalls, convexInstances>>
     /\ (last'.op = "helpers.setupFetchClient" /\ clients' # clients) =>
          /\ clients' =
               Append(clients, setupFetchClient(authOptions, last'.cookies, last'.opts))
          /\ Outbound' = Outbound]_vars

\* C17 witness: helpers.getAuth was called with a site URL in opts while the
\* environment holds another; the session request went to the URL of opts and
\* the pair came back.
C17_Witness ==
  /\ last.op = "helpers.getAuth" /\ last.context = "context"
  /\ env.PUBLIC_CONVEX_SITE_URL = Str(EnvSiteUrl)
  /\ Given(last.opts, "convexSiteUrl")
  /\ Len(betterFetchCalls) = 1
  /\ betterFetchCalls[1].baseURL = OptSiteUrl
  /\ last.outcome.kind = "resolve"

NonEmptyString(v) == v.typeof = "string" /\ v.text # <<>>

\* the step is a fetchQuery, fetchMutation or fetchAction call
CalledMethod == calls' = calls + 1 /\ last'.op \in Methods

\* C21: a fetch call hands the token to setAuth exactly when the cookie source
\* holds a non-empty string under the configured name; when the token is
\* undefined or empty the call is still sent, on a client whose setAuth was
\* never called.
C21_SetAuthIffNonEmptyToken ==
  [][CalledMethod
     => /\ Len(convexInstances') = Len(convexInstances) + 1
        /\ convexInstances'[Len(convexInstances')].setAuth =
             (IF NonEmptyString(Located(clients[last'.client].cookies, ConfiguredName))
              THEN <<Located(clients[last'.client].cookies, ConfiguredName)>>
              ELSE <<>>)
        /\ convexInstances'[Len(convexInstances')].sent =
             <<[method |-> last'.op, reference |-> last'.reference,
                args |-> last'.args, answer |-> last'.outcome]>>]_vars

\* C21 witness: the cookie store holds the session cookie with an empty value;
\* the mutation went out on a client without auth.
C21_Witness ==
  /\ last.op = "mutation"
  /\ clients[last.client].cookies = "AstroCookies"
  /\ Located("AstroCookies", ConfiguredName) = Str(<<>>)
  /\ Len(convexInstances) = 1
  /\ LastInstance.setAuth = <<>>
  /\ Len(LastInstance.sent) = 1

\* C21 witness: a non-empty token was handed to setAuth.
C21_WitnessToken ==
  /\ last.op = "action"
  /\ NonEmptyString(Located(clients[last.client].cookies, ConfiguredName))
  /\ LastInstance.setAuth = <<Located(clients[last.client].cookies, ConfiguredName)>>

\* C22: getToken returns the value held under the configured cookie name and
\* no other; when that cookie does not occur and the other secure/insecure
\* variant does, getToken returns undefined and a fetch call sets no auth: the
\* variant's value is only warned about.
C22_ExactNameOnly ==
  [][/\ Called("getToken")
        => /\ last'.outcome = Return(Located(last'.source, ConfiguredName))
           /\ (~Occurs(last'.source, ConfiguredName)
                 /\ Truthy(Located(last'.source, OtherVariant)))
               => /\ last'.outcome = Return(Undefined)
                  /\ last'.warned = <<[looking |-> ConfiguredName, found |-> OtherVariant]>>
     /\ (/\ CalledMethod
         /\ ~Occurs(clients[last'.client].cookies, ConfiguredName)
         /\ Truthy(Located(clients[last'.client].cookies, OtherVariant)))
        => /\ convexInstances'[Len(convexInstances')].setAuth = <<>>
           /\ last'.warned = <<[looking |-> ConfiguredName, found |-> OtherVariant]>>]_vars

\* C22 witness: only the other variant of the cookie was sent; the query went
\* out without auth and with a warning.
C22_Witness ==
  /\ last.op = "query"
  /\ clients[last.client].cookies = "string"
  /\ ~Occurs("string", ConfiguredName)
  /\ Located("string", OtherVariant) = Str(<<"a">>)
  /\ LastInstance.setAuth = <<>>
  /\ last.warned # <<>>

\* C22 witness: getToken on a request with only the other variant.
C22_WitnessGetToken ==
  /\ IsGetToken
  /\ ~Occurs(last.source, ConfiguredName)
  /\ Truthy(Located(last.source, OtherVariant))
  /\ last.outcome = Return(Undefined)

\* C23: the token is read when fetchQuery, fetchMutation or fetchAction is
\* called: whatever the cookie store held when the client object was built or
\* when earlier calls were made, the call runs on a client whose auth is the
\* value the cookie source holds under the configured name at the moment of
\* the call, and on a client without auth when it holds none then.
C23_TokenReadAtCallTime ==
  [][CalledMethod
     => /\ store' = store
        /\ SubSeq(convexInstances', 1, Len(convexInstances)) = convexInstances
        /\ convexInstances'[Len(convexInstances')].setAuth =
             (IF Truthy(Located(clients[last'.client].cookies, ConfiguredName))
              THEN <<Located(clients[last'.client].cookies, ConfiguredName)>>
              ELSE <<>>)]_vars

\* C23 witness: three calls through the one client object built from the
\* cookie store ran with a first token, with the token the store held after
\* it was changed, and without auth after the cookie was removed.
C23_Witness ==
  /\ Len(clients) = 1 /\ clients[1].cookies = "AstroCookies"
  /\ Len(convexInstances) = 3
  /\ convexInstances[1].setAuth = <<Str(<<"s">>)>>
  /\ convexInstances[2].setAuth = <<Str(<<"t">>)>>
  /\ convexInstances[3].setAuth = <<>>

\* C23 witness: the session cookie was set after the client object was built
\* from a request without cookies; the first call ran with it.
C23_WitnessSetAfterSetup ==
  /\ cookieJar.sent = FALSE
  /\ Len(clients) = 1 /\ clients[1].cookies = "context"
  /\ Len(convexInstances) = 1
  /\ convexInstances[1].setAuth = <<Str(<<"t">>)>>

\* the session betterFetch answered the getAuth call with
FetchedSession == last.issued[1].answer.data

\* C24: the two halves of what getAuth resolves with do not depend on each
\* other: once the session request is answered getAuth resolves; when no
\* session was fetched userId is undefined and token is still the token of the
\* context, and when the context holds no token, token is undefined and
\* userId is still the id of the user of the fetched session.
C24_TokenAndUserIdIndependent ==
  (last.op = "getAuth" /\ last.issued # <<>> /\ ~last.issued[1].answer.rejects) =>
    /\ last.outcome.kind = "resolve"
    /\ FetchedSession \in {Undefined, Null}
         => /\ last.outcome.value.userId = Undefined
            /\ last.outcome.value.token = Located(last.context, ConfiguredName)
    /\ Located(last.context, ConfiguredName) = Undefined
         => /\ last.outcome.value.token = Undefined
            /\ last.outcome.value.userId =
                 (IF FetchedSession \in {Undefined, Null}
                  THEN Undefined ELSE FetchedSession.user.id)

\* C24 witness: no session was fetched for a context that holds a token; the
\* token is returned without a user id.
C24_Witness ==
  /\ last.op = "getAuth"
  /\ last.issued # <<>> /\ FetchedSession = Null
  /\ Located(last.context, ConfiguredName) = Str(<<"s">>)
  /\ last.outcome = Resolve([userId |-> Undefined, token |-> Str(<<"s">>)])

\* C24 witness: a session was fetched for a context that holds no token; the
\* user id is returned without a token.
C24_WitnessNoToken ==
  /\ last.op = "getAuth"
  /\ last.issued # <<>> /\ FetchedSession = SessionData
  /\ Located(last.context, ConfiguredName) = Undefined
  /\ last.outcome = Resolve([userId |-> Str(<<"u">>), token |-> Undefined])

\* the cookie name a key written in a Cookie header stands for: the key
\* without its padding and with its escapes resolved, as written when it holds
\* a malformed escape
KeyDenotes(key) ==
  CASE key \in {JWT_COOKIE_NAME, <<" ">> \o JWT_COOKIE_NAME, JWT_COOKIE_NAME \o <<" ">>,
                <<"j", "%", "7", "7", "t">>} -> JWT_COOKIE_NAME
    [] OTHER -> key

\* the text a value written in a Cookie header stands for
ValueDenotes(value) ==
  CASE value = <<"%", "3", "D">> -> <<"=">>
    [] OTHER -> value

\* the entry is a pair for the cookie n
PairFor(entry, n) == entry.eq /\ KeyDenotes(entry.key) = n

\* the position of the first pair for the cookie n, 0 when there is none
FirstPairFor(pairs, n) ==
  IF \E i \in DOMAIN pairs : PairFor(pairs[i], n)
  THEN CHOOSE i \in DOMAIN pairs :
         PairFor(pairs[i], n) /\ \A j \in 1..(i - 1) : ~PairFor(pairs[j], n)
  ELSE 0

\* C25: the value read from a Cookie header is the value of the leftmost pair
\* whose key, trimmed and URL-decoded, is the cookie name: empty segments and
\* segments without "=" are passed over, the key ends at the first "=" so that
\* the value keeps every later "=", later pairs of the name are ignored, and
\* the result is undefined when no pair has the name.
C25_FirstMatchingPair ==
  IsGetToken =>
    last.outcome =
      Return(IF FirstPairFor(cookieJar.pairs, ConfiguredName) = 0 THEN Undefined
             ELSE Str(ValueDenotes(
                        cookieJar.pairs[FirstPairFor(cookieJar.pairs, ConfiguredName)].value)))

\* C25 witness: the first pair of the cookie holds "=" in its value and a
\* second pair of the same name follows; the first pair's whole value is
\* returned.
C25_Witness ==
  /\ IsGetToken /\ ~authOptions.useSecureCookies
  /\ Len(cookieJar.pairs) = 2
  /\ cookieJar.pairs[1] = [key |-> JWT_COOKIE_NAME, eq |-> TRUE, value |-> <<"a", "=", "b">>]
  /\ cookieJar.pairs[2] = [key |-> JWT_COOKIE_NAME, eq |-> TRUE, value |-> <<"b">>]
  /\ last.outcome = Return(Str(<<"a", "=", "b">>))

\* C25 witness: a segment without "=" is passed over and the pair with a
\* percent-encoded key is read.
C25_WitnessEncodedKey ==
  /\ IsGetToken /\ ~authOptions.useSecureCookies
  /\ Len(cookieJar.pairs) = 2
  /\ cookieJar.pairs[1] = [key |-> JWT_COOKIE_NAME, eq |-> FALSE, value |-> <<>>]
  /\ cookieJar.pairs[2] = [key |-> <<"j", "%", "7", "7", "t">>, eq |-> TRUE, value |-> <<"b">>]
  /\ last.outcome = Return(Str(<<"b">>))

\* the texts of the headers that decodeURIComponent rejects
Malformed == {<<"%">>}

\* C26: reading a cookie never throws on a malformed percent escape: getToken
\* returns; a session cookie whose value cannot be decoded is returned as
\* written; and a session cookie is found whatever keys or values that cannot
\* be decoded the other pairs of the header hold.
C26_MalformedEncodingKeptRaw ==
  IsGetToken =>
    /\ last.outcome.kind = "return"
    /\ \A i \in DOMAIN cookieJar.pairs :
         i = FirstPairFor(cookieJar.pairs, ConfiguredName)
           => /\ last.outcome.value # Undefined
              /\ cookieJar.pairs[i].value \in Malformed
                   => last.outcome = Return(Str(cookieJar.pairs[i].value))
              /\ (\E j \in DOMAIN cookieJar.pairs :
                     j # i /\ (cookieJar.pairs[j].key \in Malformed
                                \/ cookieJar.pairs[j].value \in Malformed))
                   => last.outcome.value.text \in
                        {cookieJar.pairs[i].value, ValueDenotes(cookieJar.pairs[i].value)}

\* C26 witness: the session cookie's value is a malformed escape and comes
\* back as written.
C26_Witness ==
  /\ IsGetToken
  /\ FirstPairFor(cookieJar.pairs, ConfiguredName) = 1
  /\ cookieJar.pairs[1].value = <<"%">>
  /\ last.outcome = Return(Str(<<"%">>))

\* C26 witness: a pair whose key or whose value cannot be decoded comes before
\* the session cookie, which is found.
C26_WitnessOtherCookie ==
  /\ IsGetToken
  /\ Len(cookieJar.pairs) = 2
  /\ \/ cookieJar.pairs[1] = [key |-> <<"%">>, eq |-> TRUE, value |-> <<"a">>]
     \/ cookieJar.pairs[1] = [key |-> OtherName, eq |-> TRUE, value |-> <<"%">>]
  /\ PairFor(cookieJar.pairs[2], ConfiguredName)
  /\ last.outcome = Return(Str(<<"b">>))

\* the mutation the last updateUsername request sent on the shared client
LastMutation == convexInstances[1].sent[last.mutation]

\* C27 as stated: the mutation of each updateUsername request goes out on the
\* shared client with the token of that request as its auth, and without auth
\* when the request holds no token, whatever requests came before.
C27_Original ==
  last.op = "updateUsername" =>
    LastMutation.auth =
      (IF Truthy(Located("context", ConfiguredName))
       THEN Located("context", ConfiguredName) ELSE Undefined)

\* the middleware's session request failed or was never issued
MiddlewareFailed == last.issued = <<>> \/ last.issued[1].answer.rejects

\* the field of the session the middleware was answered, null when there is
\* no session or no such field
FetchedField(field) ==
  IF FetchedSession \in {Undefined, Null} THEN Null ELSE FetchedSession[field]

\* C28: the middleware calls next() exactly once for every request and
\* returns what next() gives. When the token lookup and the session request
\* succeed, locals.user and locals.session are the user and the session
\* fetched, or null, and locals.convexToken is the token of the context, or
\* null; when the session request fails or cannot be made, all three are
\* null, whatever they held before.
C28_NextOnceAndLocalsTogether ==
  last.op = "onRequest" =>
    /\ Len(last.next) = 1
    /\ IF MiddlewareFailed
       THEN last.locals = [user |-> Null, session |-> Null, convexToken |-> Null]
       ELSE /\ last.locals.user = FetchedField("user")
            /\ last.locals.session = FetchedField("session")
            /\ last.locals.convexToken =
                 Nullish(Located("context", ConfiguredName), Null)

\* C28 witness: the session request failed for a request that holds a token
\* and whose locals were set before; next() was called once and the three
\* locals are null.
C28_Witness ==
  /\ last.op = "onRequest"
  /\ last.issued # <<>> /\ last.issued[1].answer.rejects
  /\ Truthy(Located("context", ConfiguredName))
  /\ last.before.convexToken = Str(<<"o">>)
  /\ last.locals = [user |-> Null, session |-> Null, convexToken |-> Null]
  /\ Len(last.next) = 1

\* C28 witness: the session and the token were found and put in the locals.
C28_WitnessSuccess ==
  /\ last.op = "onRequest"
  /\ ~MiddlewareFailed
  /\ last.locals = [user |-> [typeof |-> "object", id |-> Str(<<"u">>)],
                    session |-> [typeof |-> "object", id |-> Str(<<"i">>)],
                    convexToken |-> Str(<<"s">>)]
  /\ Len(last.next) = 1

\* a remote call of the form has not settled yet
InFlight == \E k \in DOMAIN form.remote : form.remote[k].answer.kind = "pending"

\* C29 as stated: a submit whose validation fails sets the status to "error"
\* and issues no remote call; a submit whose validation passes issues one and
\* the status is "pending" from then until the call settles; when the call
\* has settled the status is "success" if it returned no error and "error" if
\* it returned one or threw.
C29_Original ==
  /\ (last.op = "handleSubmit" /\ last.issued = 0) => form.status = "error"
  /\ (last.op = "handleSubmit" /\ last.issued # 0)
       => last.issued = 1 /\ form.status = "pending"
  /\ last.op = "handleSubmitResumes"
       => form.status =
            (IF last.answer.kind = "resolve" /\ last.answer.value.error = Null
             THEN "success" ELSE "error")
  /\ (form.status # "unmounted" /\ InFlight) => form.status = "pending"

====
